---- MODULE Spec2Model ----
(***************************************************************************)
(* A model of the docscraper crawl-admission pipeline:                     *)
(*   - scraper.LinkDeduplicator (NormalizeURL, IsDuplicate, AddURL, ...)   *)
(*   - scraper.Scraper.shouldFollowLink and checkRobotsTxt                 *)
(*   - scraper.Scraper.Scrape / EnhancedScraper.ScrapeWithFeatures with    *)
(*     the callbacks they register on the colly collector                  *)
(*   - scraper.QualityScorer.CalculateScore and the quality gate           *)
(* Go strings are modelled as sequences of one-character strings, so that  *)
(* parsing, serialising, trimming and lower-casing are computed character  *)
(* by character as the Go code computes them.                              *)
(***************************************************************************)
EXTENDS Integers, Sequences, FiniteSets, TLC

VARIABLES
    \* ---- LinkDeduplicator (src/scraper/tree.go:429-435)
    normalizer,      \* ld.normalizer : URLNormalizer
    seenURLs,        \* ld.seenURLs   : set of canonical strings
    canonicalMap,    \* ld.canonicalMap : set of <<raw, canonical>> pairs
    duplicateCount,  \* ld.duplicateCount
    \* ---- observation of the calls made on the deduplicator
    lastCall,        \* the last call: operation, argument, result, counters before
    admitLog,        \* raw URLs for which AddURL returned true since the last Reset
    \* ---- a pure function under test: its input and its successive outputs
    fnIn,
    fnOut,
    \* ---- Scraper / EnhancedScraper (src/scraper/scraper.go:33-49)
    cfg,             \* s.config and the feature switches
    site,            \* the web site being crawled (external input)
    scrapePc,        \* position of Scrape()
    robotsResult,    \* what checkRobotsTxt returned
    reqs,            \* the requests colly has accepted, one goroutine each
    visited,         \* colly's visited-URL store
    waitChan,        \* colly LimitRule semaphore: HTTP requests in flight
    pages,           \* s.pages
    currentProgress, \* es.currentProgress
    statsTotal,      \* cqa.stats.TotalPages
    fatal,           \* the Go runtime aborted on a concurrent map write
    events,          \* observation: admissions and visits of the dedup callback
    \* ---- TreeBuilder / DocumentTree (src/scraper/tree.go:47-68)
    tree,            \* the DocumentTree being built: Root, NodeMap, TotalNodes
    treePc,          \* position of BuildTree: the step and the index into urls
    walk             \* a traversal of the built tree: pending nodes, visits, result

dedupVars == <<normalizer, seenURLs, canonicalMap, duplicateCount>>
obsVars == <<lastCall, admitLog>>
fnVars == <<fnIn, fnOut>>
crawlVars == <<cfg, site, scrapePc, robotsResult, reqs, visited, waitChan, pages,
               currentProgress, statsTotal, fatal, events>>
treeVars == <<tree, treePc, walk>>
vars == <<normalizer, seenURLs, canonicalMap, duplicateCount, lastCall, admitLog,
          fnIn, fnOut, cfg, site, scrapePc, robotsResult, reqs, visited, waitChan,
          pages, currentProgress, statsTotal, fatal, events, tree, treePc, walk>>

(***************************************************************************)
(* Go strings package, on sequences of characters.                         *)
(***************************************************************************)
UpperToLower ==
    [c \in {"A","B","C","D","E","F","G","H","I","J","K","L","M","N","O","P","Q",
            "R","S","T","U","V","W","X","Y","Z"} |->
        CASE c = "A" -> "a" [] c = "B" -> "b" [] c = "C" -> "c" [] c = "D" -> "d"
          [] c = "E" -> "e" [] c = "F" -> "f" [] c = "G" -> "g" [] c = "H" -> "h"
          [] c = "I" -> "i" [] c = "J" -> "j" [] c = "K" -> "k" [] c = "L" -> "l"
          [] c = "M" -> "m" [] c = "N" -> "n" [] c = "O" -> "o" [] c = "P" -> "p"
          [] c = "Q" -> "q" [] c = "R" -> "r" [] c = "S" -> "s" [] c = "T" -> "t"
          [] c = "U" -> "u" [] c = "V" -> "v" [] c = "W" -> "w" [] c = "X" -> "x"
          [] c = "Y" -> "y" [] c = "Z" -> "z"]

LowerChar(c) == IF c \in DOMAIN UpperToLower THEN UpperToLower[c] ELSE c

ToLower(s) == [i \in 1..Len(s) |-> LowerChar(s[i])]

IsLetter(c) == LowerChar(c) \in {UpperToLower[u] : u \in DOMAIN UpperToLower}

IsDigit(c) == c \in {"0","1","2","3","4","5","6","7","8","9"}

HasPrefix(s, p) == Len(s) >= Len(p) /\ SubSeq(s, 1, Len(p)) = p

HasSuffix(s, p) == Len(s) >= Len(p) /\ SubSeq(s, Len(s) - Len(p) + 1, Len(s)) = p

TrimPrefix(s, p) == IF HasPrefix(s, p) THEN SubSeq(s, Len(p) + 1, Len(s)) ELSE s

TrimSuffix(s, p) == IF HasSuffix(s, p) THEN SubSeq(s, 1, Len(s) - Len(p)) ELSE s

Contains(s, p) == \E i \in 1..(Len(s) - Len(p) + 1) : SubSeq(s, i, i + Len(p) - 1) = p

\* strings.Index for a one-character needle, 1-based; 0 when absent
IndexChar(s, c) ==
    IF \E i \in 1..Len(s) : s[i] = c
    THEN CHOOSE i \in 1..Len(s) : s[i] = c /\ \A j \in 1..(i - 1) : s[j] # c
    ELSE 0

LastIndexChar(s, c) ==
    IF \E i \in 1..Len(s) : s[i] = c
    THEN CHOOSE i \in 1..Len(s) : s[i] = c /\ \A j \in (i + 1)..Len(s) : s[j] # c
    ELSE 0

CountChar(s, c) == Cardinality({i \in 1..Len(s) : s[i] = c})

\* strings.Cut(s, c): the parts before and after the first c
CutBefore(s, c) == IF IndexChar(s, c) = 0 THEN s ELSE SubSeq(s, 1, IndexChar(s, c) - 1)

CutAfter(s, c) == IF IndexChar(s, c) = 0 THEN <<>> ELSE SubSeq(s, IndexChar(s, c) + 1, Len(s))

IsSpace(c) == c \in {" ", "\t", "\r"}

RECURSIVE TrimLeft(_)
TrimLeft(s) == IF s # <<>> /\ IsSpace(Head(s)) THEN TrimLeft(Tail(s)) ELSE s

RECURSIVE TrimRight(_)
TrimRight(s) ==
    IF s # <<>> /\ IsSpace(s[Len(s)]) THEN TrimRight(SubSeq(s, 1, Len(s) - 1)) ELSE s

TrimSpace(s) == TrimRight(TrimLeft(s))

RECURSIVE Split(_, _)
Split(s, c) ==
    IF IndexChar(s, c) = 0 THEN <<s>> ELSE <<CutBefore(s, c)>> \o Split(CutAfter(s, c), c)

RECURSIVE Join(_, _)
Join(parts, sep) ==
    IF parts = <<>> THEN <<>>
    ELSE IF Len(parts) = 1 THEN parts[1]
    ELSE parts[1] \o sep \o Join(Tail(parts), sep)

\* byte order of the characters used, as Go compares strings
CharRank(c) ==
    CASE c = "=" -> 1
      [] IsDigit(c) -> 2
      [] c \in DOMAIN UpperToLower -> 3
      [] OTHER -> 4

CharLess(a, b) ==
    \/ CharRank(a) < CharRank(b)
    \/ /\ CharRank(a) = CharRank(b)
       /\ \E order \in {<<"0","1","2","3","4","5","6","7","8","9">>,
                         <<"a","b","c","d","e","f","g","h","i","j","k","l","m","n",
                           "o","p","q","r","s","t","u","v","w","x","y","z">>} :
             LET la == LowerChar(a)
                 lb == LowerChar(b)
             IN  /\ IndexChar(order, la) # 0
                 /\ IndexChar(order, lb) # 0
                 /\ IndexChar(order, la) < IndexChar(order, lb)

RECURSIVE StrLess(_, _)
StrLess(a, b) ==
    IF b = <<>> THEN FALSE
    ELSE IF a = <<>> THEN TRUE
    ELSE IF Head(a) = Head(b) THEN StrLess(Tail(a), Tail(b))
    ELSE CharLess(Head(a), Head(b))

(***************************************************************************)
(* net/url as the repository uses it: url.Parse, URL.String, URL.Query,    *)
(* Values.Encode, URL.IsAbs, URL.ResolveReference.  The characters drawn   *)
(* as inputs need no percent-escaping, user-info is never drawn, and no    *)
(* path has a "." or ".." segment.                                         *)
(***************************************************************************)
NoURL == [ok |-> FALSE, scheme |-> <<>>, opaque |-> <<>>, host |-> <<>>, path |-> <<>>,
          forceQuery |-> FALSE, query |-> <<>>, fragment |-> <<>>]

\* url.getScheme: the length of the scheme (0: none), or -1: "missing protocol scheme"
SchemeOf(pre, ci) ==
    IF ci = 0 THEN 0
    ELSE IF ci = 1 THEN -1
    ELSE IF /\ IsLetter(pre[1])
            /\ \A i \in 1..Len(pre) :
                  IsLetter(pre[i]) \/ IsDigit(pre[i]) \/ pre[i] \in {"+", "-", "."}
         THEN ci - 1
    ELSE 0

GetScheme(u) == SchemeOf(SubSeq(u, 1, IndexChar(u, ":") - 1), IndexChar(u, ":"))

\* url.parse, last part: the authority ("//host") and the path
ParseAuthority(scheme, authRest, ai, force, query, frag) ==
    [ok |-> TRUE, scheme |-> scheme, opaque |-> <<>>,
     host |-> IF ai = 0 THEN authRest ELSE SubSeq(authRest, 1, ai - 1),
     path |-> IF ai = 0 THEN <<>> ELSE SubSeq(authRest, ai, Len(authRest)),
     forceQuery |-> force, query |-> query, fragment |-> frag]

\* url.parse, after the scheme and the query are split off
ParseHier(scheme, rest, force, query, frag) ==
    IF ~HasPrefix(rest, <<"/">>) /\ scheme # <<>>
    THEN [ok |-> TRUE, scheme |-> scheme, opaque |-> rest, host |-> <<>>, path |-> <<>>,
          forceQuery |-> force, query |-> query, fragment |-> frag]
    ELSE IF ~HasPrefix(rest, <<"/">>) /\ Contains(CutBefore(rest, "/"), <<":">>)
    THEN NoURL
    ELSE IF /\ HasPrefix(rest, <<"/", "/">>)
            /\ (scheme # <<>> \/ ~HasPrefix(rest, <<"/", "/", "/">>))
    THEN ParseAuthority(scheme, SubSeq(rest, 3, Len(rest)),
                        IndexChar(SubSeq(rest, 3, Len(rest)), "/"), force, query, frag)
    ELSE [ok |-> TRUE, scheme |-> scheme, opaque |-> <<>>, host |-> <<>>, path |-> rest,
          forceQuery |-> force, query |-> query, fragment |-> frag]

\* url.parse, after the scheme is split off: ForceQuery / RawQuery
ParseQueryPart(scheme, rest0, frag) ==
    IF HasSuffix(rest0, <<"?">>) /\ CountChar(rest0, "?") = 1
    THEN ParseHier(scheme, SubSeq(rest0, 1, Len(rest0) - 1), TRUE, <<>>, frag)
    ELSE ParseHier(scheme, CutBefore(rest0, "?"), FALSE, CutAfter(rest0, "?"), frag)

ParseScheme(u, sl, frag) ==
    IF sl = -1 THEN NoURL
    ELSE IF sl > 0
    THEN ParseQueryPart(ToLower(SubSeq(u, 1, sl)), SubSeq(u, sl + 2, Len(u)), frag)
    ELSE ParseQueryPart(<<>>, u, frag)

\* url.Parse
ParseURL(raw) == ParseScheme(CutBefore(raw, "#"), GetScheme(CutBefore(raw, "#")), CutAfter(raw, "#"))

URLAuthority(u) ==
    IF u.scheme # <<>> \/ u.host # <<>>
    THEN (IF u.host # <<>> \/ u.path # <<>> THEN <<"/", "/">> ELSE <<>>) \o u.host
    ELSE <<>>

URLPrefix(u) ==
    (IF u.scheme # <<>> THEN u.scheme \o <<":">> ELSE <<>>)
    \o URLAuthority(u)
    \o (IF u.path # <<>> /\ u.path[1] # "/" /\ u.host # <<>> THEN <<"/">> ELSE <<>>)

URLBody(u, prefix) ==
    IF u.opaque # <<>>
    THEN (IF u.scheme # <<>> THEN u.scheme \o <<":">> ELSE <<>>) \o u.opaque
    ELSE prefix
         \o (IF prefix = <<>> /\ Contains(CutBefore(u.path, "/"), <<":">>)
             THEN <<".", "/">> ELSE <<>>)
         \o u.path

\* URL.String
URLString(u) ==
    URLBody(u, URLPrefix(u))
    \o (IF u.forceQuery \/ u.query # <<>> THEN <<"?">> \o u.query ELSE <<>>)
    \o (IF u.fragment # <<>> THEN <<"#">> \o u.fragment ELSE <<>>)

IsAbs(u) == u.scheme # <<>>

\* url.ParseQuery: the key=value pairs in order of appearance, empty pairs skipped
PairsOf(parts) ==
    [i \in 1..Len(parts) |-> [key |-> CutBefore(parts[i], "="),
                              value |-> CutAfter(parts[i], "=")]]

QueryPairs(query) == PairsOf(SelectSeq(Split(query, "&"), LAMBDA p : p # <<>>))

RECURSIVE SortStrings(_)
SortStrings(keys) ==
    IF keys = {} THEN <<>>
    ELSE LET m == CHOOSE k \in keys : \A o \in keys : ~StrLess(o, k)
         IN  <<m>> \o SortStrings(keys \ {m})

\* Values.Encode of the pairs of one key, in their order of appearance
EncodeKey(pairs, k) ==
    Join([i \in 1..Len(SelectSeq(pairs, LAMBDA p : p.key = k)) |->
             k \o <<"=">> \o SelectSeq(pairs, LAMBDA p : p.key = k)[i].value],
         <<"&">>)

EncodeSorted(pairs, keys) == Join([i \in 1..Len(keys) |-> EncodeKey(pairs, keys[i])], <<"&">>)

PairKeys(pairs) == {pairs[i].key : i \in 1..Len(pairs)}

\* the loop of NormalizeURL that rebuilds the query in key order, then Values.Encode
SortedQuery(query) ==
    EncodeSorted(QueryPairs(query), SortStrings(PairKeys(QueryPairs(query))))

\* url.resolvePath for paths without dot segments
CleanPath(full) ==
    IF full = <<>> THEN <<>>
    ELSE IF full[1] = "/" THEN full
    ELSE <<"/">> \o full

ResolvePath(base, ref) ==
    IF ref = <<>> THEN CleanPath(base)
    ELSE IF ref[1] # "/" THEN CleanPath(SubSeq(base, 1, LastIndexChar(base, "/")) \o ref)
    ELSE CleanPath(ref)

\* URL.ResolveReference
ResolveReference(base, ref) ==
    IF ref.scheme # <<>> \/ ref.host # <<>>
    THEN [ref EXCEPT !.scheme = IF ref.scheme = <<>> THEN base.scheme ELSE ref.scheme,
                     !.path = ResolvePath(ref.path, <<>>)]
    ELSE IF ref.opaque # <<>>
    THEN [ref EXCEPT !.scheme = base.scheme, !.host = <<>>, !.path = <<>>]
    ELSE [ref EXCEPT !.scheme = base.scheme,
                     !.host = base.host,
                     !.path = ResolvePath(base.path, ref.path),
                     !.query = IF ref.path = <<>> /\ ~ref.forceQuery /\ ref.query = <<>>
                               THEN base.query ELSE ref.query,
                     !.fragment = IF /\ ref.path = <<>> /\ ~ref.forceQuery
                                     /\ ref.query = <<>> /\ ref.fragment = <<>>
                                  THEN base.fragment ELSE ref.fragment]

(***************************************************************************)
(* LinkDeduplicator.NormalizeURL, one operator per step of the function    *)
(***************************************************************************)
RemoveFragmentStep(n, u) == IF n.RemoveFragment THEN [u EXCEPT !.fragment = <<>>] ELSE u

RemoveQueryStep(n, u) == IF n.RemoveQuery THEN [u EXCEPT !.query = <<>>] ELSE u

SortQueryStep(n, u) ==
    IF n.SortQueryParams /\ ~n.RemoveQuery
    THEN [u EXCEPT !.query = SortedQuery(u.query)] ELSE u

RemoveWWWStep(n, u) ==
    IF n.RemoveWWW /\ HasPrefix(ToLower(u.host), <<"w", "w", "w", ".">>)
    THEN [u EXCEPT !.host = SubSeq(u.host, 5, Len(u.host))] ELSE u

RemoveTrailingStep(n, u) ==
    IF n.RemoveTrailing /\ u.path # <<"/">>
    THEN [u EXCEPT !.path = TrimSuffix(u.path, <<"/">>)] ELSE u

LowerCaseStep(n, str) == IF n.LowerCase THEN ToLower(str) ELSE str

NormalizeParsed(n, parsed) ==
    IF ~parsed.ok THEN [ok |-> FALSE, url |-> <<>>]
    ELSE [ok |-> TRUE,
          url |-> LowerCaseStep(n, URLString(
                    RemoveTrailingStep(n, RemoveWWWStep(n, SortQueryStep(n,
                      RemoveQueryStep(n, RemoveFragmentStep(n, parsed)))))))]

NormalizeURL(n, rawURL) == NormalizeParsed(n, ParseURL(rawURL))

(***************************************************************************)
(* Inputs: raw URLs assembled from small sets of components, and the       *)
(* URLNormalizer policies.                                                 *)
(***************************************************************************)
Policies ==
    [RemoveFragment : BOOLEAN, RemoveQuery : BOOLEAN, RemoveTrailing : BOOLEAN,
     LowerCase : BOOLEAN, RemoveWWW : BOOLEAN, SortQueryParams : BOOLEAN]

\* NewWithFeatures after Config.SetDefaults: the default deduplication policy
DefaultPolicy ==
    [RemoveFragment |-> TRUE, RemoveQuery |-> FALSE, RemoveTrailing |-> TRUE,
     LowerCase |-> TRUE, RemoveWWW |-> TRUE, SortQueryParams |-> TRUE]

\* the policy of TestLinkDeduplicator_AddURL and TestLinkDeduplicator_IsDuplicate
TestPolicy ==
    [RemoveFragment |-> TRUE, RemoveQuery |-> FALSE, RemoveTrailing |-> FALSE,
     LowerCase |-> TRUE, RemoveWWW |-> FALSE, SortQueryParams |-> FALSE]

NoPolicy ==
    [RemoveFragment |-> FALSE, RemoveQuery |-> FALSE, RemoveTrailing |-> FALSE,
     LowerCase |-> FALSE, RemoveWWW |-> FALSE, SortQueryParams |-> FALSE]

HostChoices == {<<"a",".","i","o">>, <<"A",".","i","o">>, <<"w","w","w",".","a",".","i","o">>, <<"w","w","w",".","w","w","w",".","a",".","i","o">>}

PathChoices == {<<>>, <<"/">>, <<"/","p">>, <<"/","p","/">>, <<"/","p","/","/">>, <<"/","P">>}

QueryChoices == {<<>>, <<"?","a","=","2","&","b","=","1">>, <<"?","b","=","1","&","a","=","2">>, <<"?","B","=","1","&","a","=","2">>}

FragmentChoices == {<<>>, <<"#","s">>}

InvalidURL == <<":","/","/","i","n","v","a","l","i","d">>

RawURLs ==
    {<<"h","t","t","p",":","/","/">> \o h \o p \o q \o f :
        h \in HostChoices, p \in PathChoices, q \in QueryChoices, f \in FragmentChoices}
    \cup {InvalidURL}

\* the URLs offered to one deduplicator: equivalent spellings of two pages,
\* a third page, and a URL that does not parse
DedupURLs ==
    {<<"h","t","t","p",":","/","/","a",".","i","o","/","p">>, <<"h","t","t","p",":","/","/","A",".","i","o","/","p","#","s">>, <<"h","t","t","p",":","/","/","w","w","w",".","a",".","i","o","/","p","/">>, <<"h","t","t","p",":","/","/","a",".","i","o","/","P">>,
     <<"h","t","t","p",":","/","/","a",".","i","o","/","q">>, InvalidURL}

DedupPolicies == {NoPolicy, TestPolicy, DefaultPolicy}

\* model bound: calls counted as duplicates by one deduplicator
MaxDuplicates == 2

NoCall == [op |-> "none"]

IdleDedup ==
    /\ normalizer = NoPolicy
    /\ seenURLs = {}
    /\ canonicalMap = {}
    /\ duplicateCount = 0

IdleObs == lastCall = NoCall /\ admitLog = {}

IdleFn == fnIn = <<>> /\ fnOut = <<>>

\* checkRobotsTxt has not been called
NoRobots == [kind |-> "none", status |-> 0, allowed |-> FALSE, err |-> FALSE]

\* a nil *DocumentNode
NoNode == <<>>

\* &DocumentTree{NodeMap: make(map[string]*DocumentNode)}
EmptyTree == [Root |-> NoNode, NodeMap |-> <<>>, TotalNodes |-> 0, MaxDepth |-> 0]

NoWalk ==
    [kind |-> "none", pending |-> <<>>, visits |-> <<>>, result |-> "none",
     raised |-> NoNode, returned |-> NoNode]

IdleTree ==
    tree = EmptyTree /\ treePc = [at |-> "idle", i |-> 0, err |-> "none"] /\ walk = NoWalk

IdleCrawl ==
    /\ cfg = <<>>
    /\ site = <<>>
    /\ scrapePc = "idle"
    /\ robotsResult = NoRobots
    /\ reqs = <<>>
    /\ visited = {}
    /\ waitChan = 0
    /\ pages = <<>>
    /\ currentProgress = 0
    /\ statsTotal = 0
    /\ fatal = FALSE
    /\ events = {}

(***************************************************************************)
(* NormalizeURL applied to a raw URL, and then to its own result.          *)
(***************************************************************************)
InitNormalize ==
    /\ fnIn \in [policy : Policies, raw : RawURLs]
    /\ fnOut = <<>>
    /\ IdleDedup /\ IdleObs /\ IdleCrawl /\ IdleTree

NormalizeOnce ==
    /\ fnOut = <<>>
    /\ fnOut' = <<NormalizeURL(fnIn.policy, fnIn.raw)>>
    /\ UNCHANGED <<fnIn, dedupVars, obsVars, crawlVars, treeVars>>

NormalizeAgain ==
    /\ Len(fnOut) = 1
    /\ fnOut[1].ok
    /\ fnOut' = Append(fnOut, NormalizeURL(fnIn.policy, fnOut[1].url))
    /\ UNCHANGED <<fnIn, dedupVars, obsVars, crawlVars, treeVars>>

NextNormalize == NormalizeOnce \/ NormalizeAgain

SpecNormalize == InitNormalize /\ [][NextNormalize]_vars

(***************************************************************************)
(* One LinkDeduplicator called sequentially.                               *)
(***************************************************************************)
InitDedup ==
    /\ normalizer \in DedupPolicies
    /\ seenURLs = {}
    /\ canonicalMap = {}
    /\ duplicateCount = 0
    /\ IdleObs /\ IdleFn /\ IdleCrawl /\ IdleTree

Observe(op, rawURL, ret) ==
    lastCall' = [op |-> op, url |-> rawURL, ret |-> ret,
                 dupBefore |-> duplicateCount,
                 seenBefore |-> Cardinality(seenURLs),
                 mapBefore |-> canonicalMap,
                 logBefore |-> admitLog]

\* ld.canonicalMap[rawURL] = normalized
MapPut(m, rawURL, normalized) == {p \in m : p[1] # rawURL} \cup {<<rawURL, normalized>>}

\* an IsDuplicate that looks the raw URL up without normalizing it
IsDuplicateRawLookup(rawURL) ==
    /\ Observe("IsDuplicate", rawURL, rawURL \in seenURLs)
    /\ UNCHANGED <<dedupVars, admitLog, fnVars, crawlVars, treeVars>>

\* an answer that treats a URL that does not normalise as not seen
IsDuplicateUnlessFailed(normalized, seen) ==
    normalized.ok /\ normalized.url \in seen

\* IsDuplicate's answer, given what NormalizeURL returned
IsDuplicateResult(normalized, seen) ==
    IF ~normalized.ok THEN TRUE ELSE normalized.url \in seen

IsDuplicate(rawURL) ==
    /\ Observe("IsDuplicate", rawURL,
               IsDuplicateResult(NormalizeURL(normalizer, rawURL), seenURLs))
    /\ UNCHANGED <<dedupVars, admitLog, fnVars, crawlVars, treeVars>>

\* AddURL after its call of NormalizeURL, with a check on the raw URL
AddURLRawCheck(rawURL, normalized) ==
    IF ~normalized.ok \/ rawURL \in {p[1] : p \in canonicalMap}
    THEN /\ duplicateCount < MaxDuplicates
         /\ duplicateCount' = duplicateCount + 1
         /\ Observe("AddURL", rawURL, FALSE)
         /\ UNCHANGED <<normalizer, seenURLs, canonicalMap, admitLog, fnVars, crawlVars, treeVars>>
    ELSE /\ seenURLs' = seenURLs \cup {normalized.url}
         /\ canonicalMap' = MapPut(canonicalMap, rawURL, normalized.url)
         /\ admitLog' = admitLog \cup {rawURL}
         /\ Observe("AddURL", rawURL, TRUE)
         /\ UNCHANGED <<normalizer, duplicateCount, fnVars, crawlVars, treeVars>>

\* AddURL after its call of NormalizeURL
AddURLNormalized(rawURL, normalized) ==
    IF ~normalized.ok \/ normalized.url \in seenURLs
    THEN /\ duplicateCount < MaxDuplicates
         /\ duplicateCount' = duplicateCount + 1
         /\ Observe("AddURL", rawURL, FALSE)
         /\ UNCHANGED <<normalizer, seenURLs, canonicalMap, admitLog, fnVars, crawlVars, treeVars>>
    ELSE /\ seenURLs' = seenURLs \cup {normalized.url}
         /\ canonicalMap' = MapPut(canonicalMap, rawURL, normalized.url)
         /\ admitLog' = admitLog \cup {rawURL}
         /\ Observe("AddURL", rawURL, TRUE)
         /\ UNCHANGED <<normalizer, duplicateCount, fnVars, crawlVars, treeVars>>

AddURL(rawURL) == AddURLNormalized(rawURL, NormalizeURL(normalizer, rawURL))

\* GetCanonicalURL's answer, given the map entries of the raw URL
CanonicalOf(rawURL, known, normalized) ==
    IF known # {} THEN (CHOOSE p \in known : TRUE)[2]
    ELSE IF normalized.ok THEN normalized.url
    ELSE rawURL

GetCanonicalURL(rawURL) ==
    /\ Observe("GetCanonicalURL", rawURL,
               CanonicalOf(rawURL, {p \in canonicalMap : p[1] = rawURL},
                           NormalizeURL(normalizer, rawURL)))
    /\ UNCHANGED <<dedupVars, admitLog, fnVars, crawlVars, treeVars>>

\* a Reset that clears the counter and the canonical map only
ResetKeepingSeen ==
    /\ seenURLs' = seenURLs
    /\ canonicalMap' = {}
    /\ duplicateCount' = 0
    /\ admitLog' = {}
    /\ Observe("Reset", <<>>, FALSE)
    /\ UNCHANGED <<normalizer, fnVars, crawlVars, treeVars>>

Reset ==
    /\ seenURLs' = {}
    /\ canonicalMap' = {}
    /\ duplicateCount' = 0
    /\ admitLog' = {}
    /\ Observe("Reset", <<>>, FALSE)
    /\ UNCHANGED <<normalizer, fnVars, crawlVars, treeVars>>

CallIsDuplicate == \E u \in DedupURLs : IsDuplicate(u)

CallAddURL == \E u \in DedupURLs : AddURL(u)

CallGetCanonicalURL == \E u \in DedupURLs : GetCanonicalURL(u)

NextDedup == CallIsDuplicate \/ CallAddURL \/ CallGetCanonicalURL \/ Reset

SpecDedup == InitDedup /\ [][NextDedup]_vars

(***************************************************************************)
(* Properties of the deduplicator (SpecDedup) and of NormalizeURL          *)
(* (SpecNormalize).                                                        *)
(***************************************************************************)
\* the raw URLs admitted before the last call that have the canonical form of its argument
AdmittedEquivalents ==
    {r \in lastCall.logBefore :
        NormalizeURL(normalizer, r) = NormalizeURL(normalizer, lastCall.url)}

\* C3: in a sequential series of AddURL calls with no Reset in between, AddURL
\* returns true exactly once per distinct canonical form: the first AddURL of a
\* canonical form returns true, and every later AddURL of a URL with the same
\* canonical form returns false, adds exactly 1 to the duplicate counter and
\* leaves the number of seen URLs unchanged.
C3_AddURLOncePerCanonicalForm ==
    /\ \A r1, r2 \in admitLog :
          r1 # r2 => NormalizeURL(normalizer, r1) # NormalizeURL(normalizer, r2)
    /\ (lastCall.op = "AddURL" /\ NormalizeURL(normalizer, lastCall.url).ok) =>
          IF AdmittedEquivalents # {}
          THEN /\ lastCall.ret = FALSE
               /\ duplicateCount = lastCall.dupBefore + 1
               /\ Cardinality(seenURLs) = lastCall.seenBefore
          ELSE /\ lastCall.ret = TRUE
               /\ duplicateCount = lastCall.dupBefore

\* C3 witness: AddURL has just rejected a spelling never offered before, because
\* another spelling of the same canonical form had been admitted.
C3_Witness ==
    /\ lastCall.op = "AddURL"
    /\ lastCall.ret = FALSE
    /\ NormalizeURL(normalizer, lastCall.url).ok
    /\ lastCall.url \notin lastCall.logBefore
    /\ AdmittedEquivalents # {}
    /\ duplicateCount = lastCall.dupBefore + 1

\* C4: once AddURL(u) has returned true and no Reset has happened, IsDuplicate(v)
\* returns true for every v with NormalizeURL(v) = NormalizeURL(u), and
\* IsDuplicate(w) returns false for every parseable w whose canonical form was
\* never admitted.
C4_IsDuplicateIffAdmitted ==
    (lastCall.op = "IsDuplicate" /\ NormalizeURL(normalizer, lastCall.url).ok) =>
        (lastCall.ret = (AdmittedEquivalents # {}))

\* C4 witness: IsDuplicate has just answered true for a spelling that was never
\* passed to AddURL itself, only an equivalent one was.
C4_Witness ==
    /\ lastCall.op = "IsDuplicate"
    /\ lastCall.ret = TRUE
    /\ NormalizeURL(normalizer, lastCall.url).ok
    /\ lastCall.url \notin lastCall.logBefore
    /\ AdmittedEquivalents # {}

\* C5: NormalizeURL is idempotent under every policy: normalizing the result of
\* NormalizeURL again returns the same string.
C5_NormalizeIdempotent ==
    Len(fnOut) = 2 => fnOut[2] = fnOut[1]

(***************************************************************************)
(* Scraper.shouldFollowLink                                                *)
(***************************************************************************)
skipExtensions ==
    {<<".","p","d","f">>, <<".","j","p","g">>, <<".","j","p","e","g">>, <<".","p","n","g">>, <<".","g","i","f">>, <<".","z","i","p">>, <<".","t","a","r">>, <<".","g","z">>, <<".","m","p","4">>,
     <<".","a","v","i">>, <<".","m","o","v">>}

skipPaths == {<<"/","l","o","g","i","n">>, <<"/","r","e","g","i","s","t","e","r">>, <<"/","a","p","i","/">>, <<"/","a","d","m","i","n","/">>, <<"/","s","e","a","r","c","h">>}

\* the condition of scraper.go:218-221 on the raw link text
InvalidFormat(link, linkURL) ==
    /\ ~IsAbs(linkURL)
    /\ \/ Contains(link, <<":","/","/">>)
       \/ /\ Len(link) > 0
          /\ ~HasPrefix(link, <<"/">>)
          /\ ~HasPrefix(link, <<"#">>)
          /\ ~HasPrefix(link, <<"?">>)
          /\ ~Contains(link, <<".">>)
          /\ ~Contains(link, <<"/">>)
          /\ Len(link) > 10

\* shouldFollowLink after url.Parse succeeded and the reference is resolved
FollowResolved(link, linkURL, baseURL, resolvedURL) ==
    IF InvalidFormat(link, linkURL) THEN FALSE
    ELSE IF IsAbs(linkURL) /\ (linkURL.scheme = <<>> \/ linkURL.host = <<>>) THEN FALSE
    ELSE IF resolvedURL.host # baseURL.host THEN FALSE
    ELSE IF \E ext \in skipExtensions : HasSuffix(ToLower(resolvedURL.path), ext) THEN FALSE
    ELSE IF resolvedURL.path = baseURL.path /\ resolvedURL.fragment # <<>> THEN FALSE
    ELSE IF \E path \in skipPaths : Contains(resolvedURL.path, path) THEN FALSE
    ELSE TRUE

FollowParsed(link, linkURL, baseURL) ==
    IF ~linkURL.ok THEN FALSE
    ELSE FollowResolved(link, linkURL, baseURL, ResolveReference(baseURL, linkURL))

shouldFollowLink(link, baseURL) == FollowParsed(link, ParseURL(link), baseURL)

\* the pages on which links are found
FollowBases == {<<"h","t","t","p","s",":","/","/","a",".","i","o","/","d","o","c","s","/">>, <<"h","t","t","p","s",":","/","/","a",".","i","o","/","d","o","c","s","/","p","a","g","e","?","v","=","1">>, <<"h","t","t","p","s",":","/","/","a",".","i","o","/","d","o","c","s","/","#","t","o","p">>}

\* hrefs: relative and absolute, same and other host, denied extensions, anchors,
\* query-only links, non-content paths, malformed and unparseable text
FollowLinks ==
    {<<"/","d","o","c","s","/","p","a","g","e","1">>, <<"h","t","t","p","s",":","/","/","a",".","i","o","/","d","o","c","s","/","p","a","g","e","2">>, <<"h","t","t","p","s",":","/","/","b",".","i","o","/","p","a","g","e">>, <<"/","d","o","c","s","/","f","i","l","e",".","p","d","f">>,
     <<"/","i","m","g","/","p",".","J","P","G">>, <<"/","a",".","t","a","r",".","g","z">>, <<"/","p","d","f">>, <<"/","x",".","p","d","f","/","y">>, <<"/","d","o","c","s","/","f","i","l","e",".","p","d","f","?","x","=","1">>,
     <<"#","s","1">>, <<"#">>, <<>>, <<"/","d","o","c","s","/","#","s">>, <<"/","d","o","c","s","/">>, <<"p","a","g","e","2">>, <<"p","a","g","e","#","s">>,
     <<"?","v","=","2">>, <<"?","v","=","2","#","t","o","p">>, <<"?","v","=","1","#","t","o","p">>, <<"?","v","=","1">>,
     <<"/","l","o","g","i","n">>, <<"/","r","e","g","i","s","t","e","r">>, <<"/","a","p","i","/","u","s","e","r","s">>, <<"/","a","d","m","i","n","/","x">>, <<"/","s","e","a","r","c","h","?","q","=","t">>, <<"/","a","p","i">>,
     <<"n","o","t","-","a","-","v","a","l","i","d","-","u","r","l">>, <<"s","h","o","r","t","n","a","m","e">>, <<":","/","/","b","a","d">>, <<"/","r","?","u","=","h","t","t","p",":","/","/","x">>, <<"m","a","i","l","t","o",":","x">>,
     <<"/","/","a",".","i","o","/","x">>, <<"/","/","b",".","i","o","/","x">>, <<"H","T","T","P","S",":","/","/","a",".","i","o","/","d","o","c","s","/","p","a","g","e","3">>}

InitFollow ==
    /\ fnIn \in [link : FollowLinks, base : FollowBases]
    /\ fnOut = <<>>
    /\ IdleDedup /\ IdleObs /\ IdleCrawl /\ IdleTree

EvalShouldFollowLink ==
    /\ fnOut = <<>>
    /\ fnOut' = <<shouldFollowLink(fnIn.link, ParseURL(fnIn.base))>>
    /\ UNCHANGED <<fnIn, dedupVars, obsVars, crawlVars, treeVars>>

\* the link of the current input resolved against its origin
ResolvedInput == ResolveReference(ParseURL(fnIn.base), ParseURL(fnIn.link))

NextFollow == EvalShouldFollowLink

SpecFollow == InitFollow /\ [][NextFollow]_vars

\* the rejection conditions as the specification lists them
RejectUnparseable == ~ParseURL(fnIn.link).ok

RejectMalformed == InvalidFormat(fnIn.link, ParseURL(fnIn.link))

RejectOtherHost == ResolvedInput.host # ParseURL(fnIn.base).host

RejectExtension == \E ext \in skipExtensions : HasSuffix(ToLower(ResolvedInput.path), ext)

\* the resolved URL is the origin page (same scheme, host, path and query) with a fragment
RejectSamePageAnchor ==
    /\ ResolvedInput.scheme = ParseURL(fnIn.base).scheme
    /\ ResolvedInput.host = ParseURL(fnIn.base).host
    /\ ResolvedInput.path = ParseURL(fnIn.base).path
    /\ ResolvedInput.query = ParseURL(fnIn.base).query
    /\ ResolvedInput.fragment # <<>>

RejectNonContent == \E path \in skipPaths : Contains(ResolvedInput.path, path)

\* C6: shouldFollowLink returns false exactly when the link is unparseable, or
\* matches the malformed-absolute heuristic, or resolves to another host, or to a
\* path with a deny-listed extension, or to the origin page differing only by
\* fragment, or to a non-content path; it returns true for every other link,
\* e.g. a same-path link that differs from the origin by query as well as fragment.
C6_FollowExactlyWhenNotRejected ==
    Len(fnOut) >= 1 =>
        fnOut[1] = ~(\/ RejectUnparseable
                     \/ RejectMalformed
                     \/ RejectOtherHost
                     \/ RejectExtension
                     \/ RejectSamePageAnchor
                     \/ RejectNonContent)

(***************************************************************************)
(* Scraper.checkRobotsTxt                                                  *)
(***************************************************************************)
\* the scanner loop of checkRobotsTxt over the lines of the response body
RECURSIVE ScanRobots(_, _, _)
ScanRobots(lines, i, userAgentMatch) ==
    IF i > Len(lines) THEN TRUE
    ELSE IF HasPrefix(ToLower(TrimSpace(lines[i])), <<"u","s","e","r","-","a","g","e","n","t",":">>)
         THEN ScanRobots(lines, i + 1,
                  userAgentMatch
                  \/ TrimSpace(TrimPrefix(TrimSpace(lines[i]), <<"u","s","e","r","-","a","g","e","n","t",":">>)) = <<"*">>)
    ELSE IF userAgentMatch /\ HasPrefix(ToLower(TrimSpace(lines[i])), <<"d","i","s","a","l","l","o","w",":">>)
         THEN IF TrimSpace(TrimPrefix(TrimSpace(lines[i]), <<"d","i","s","a","l","l","o","w",":">>)) = <<"/">>
              THEN FALSE
              ELSE ScanRobots(lines, i + 1, userAgentMatch)
    ELSE ScanRobots(lines, i + 1, userAgentMatch)

\* resp is the outcome of http.Get(robotsURL): a transport error, or a status and body
RobotsForParsed(parsedURL, resp) ==
    IF ~parsedURL.ok \/ parsedURL.scheme = <<>> \/ parsedURL.host = <<>>
    THEN [allowed |-> FALSE, err |-> TRUE]
    ELSE IF resp.kind = "error" THEN [allowed |-> TRUE, err |-> FALSE]
    ELSE IF resp.status = 404 THEN [allowed |-> TRUE, err |-> FALSE]
    ELSE [allowed |-> ScanRobots(resp.body, 1, FALSE), err |-> FALSE]

checkRobotsTxt(rootURL, resp) == RobotsForParsed(ParseURL(rootURL), resp)

MaxRobotsLines == 3

RobotsLines ==
    {<<"U","s","e","r","-","a","g","e","n","t",":"," ","*">>, <<"u","s","e","r","-","a","g","e","n","t",":"," ","*">>, <<"u","s","e","r","-","a","g","e","n","t",":"," ","b","o","t">>, <<"U","s","e","r","-","a","g","e","n","t",":"," ","o","t","h","e","r">>,
     <<"u","s","e","r","-","a","g","e","n","t",":"," ","o","t","h","e","r">>, <<"D","i","s","a","l","l","o","w",":"," ","/">>, <<"d","i","s","a","l","l","o","w",":"," ","/">>, <<"d","i","s","a","l","l","o","w",":"," ","/","x">>}

RobotsBodies == UNION {[1..n -> RobotsLines] : n \in 0..MaxRobotsLines}

RobotsResponses ==
    {[kind |-> "error", status |-> 0, body |-> <<>>],
     [kind |-> "response", status |-> 404, body |-> <<<<"u","s","e","r","-","a","g","e","n","t",":"," ","*">>, <<"d","i","s","a","l","l","o","w",":"," ","/">>>>]}
    \cup {[kind |-> "response", status |-> 200, body |-> b] : b \in RobotsBodies}

RobotsRoots == {<<"h","t","t","p",":","/","/","a",".","i","o","/">>, <<"a",".","i","o","/","d","o","c","s">>}

\* the configured User-Agent of the scraper
ConfiguredAgent == <<"b","o","t">>

InitRobots ==
    /\ fnIn \in [rootURL : RobotsRoots, resp : RobotsResponses]
    /\ fnOut = <<>>
    /\ IdleDedup /\ IdleObs /\ IdleCrawl /\ IdleTree

EvalCheckRobotsTxt ==
    /\ fnOut = <<>>
    /\ fnOut' = <<checkRobotsTxt(fnIn.rootURL, fnIn.resp)>>
    /\ UNCHANGED <<fnIn, dedupVars, obsVars, crawlVars, treeVars>>

NextRobots == EvalCheckRobotsTxt

SpecRobots == InitRobots /\ [][NextRobots]_vars

\* reading of a robots.txt line with its prefix matched case-insensitively
IsAgentLine(line) == HasPrefix(ToLower(TrimSpace(line)), <<"u","s","e","r","-","a","g","e","n","t",":">>)

IsDisallowLine(line) == HasPrefix(ToLower(TrimSpace(line)), <<"d","i","s","a","l","l","o","w",":">>)

LineValue(line, n) == TrimSpace(SubSeq(TrimSpace(line), n + 1, Len(TrimSpace(line))))

NamesUs(line) ==
    IsAgentLine(line) /\ LineValue(line, 11) \in {<<"*">>, ConfiguredAgent}

\* the first line that opens a block for "*" or the configured agent (0 if none)
FirstBlockStart(lines) ==
    IF \E i \in 1..Len(lines) : NamesUs(lines[i])
    THEN CHOOSE i \in 1..Len(lines) :
            NamesUs(lines[i]) /\ \A j \in 1..(i - 1) : ~NamesUs(lines[j])
    ELSE 0

\* a block runs from its User-agent line(s) to the next User-agent line after a rule
InBlock(lines, start, k) ==
    /\ k > start
    /\ \A j \in (start + 1)..k :
           IsAgentLine(lines[j]) => \A m \in start..j : IsAgentLine(lines[m])

FirstBlockDisallowsAll(lines) ==
    /\ FirstBlockStart(lines) > 0
    /\ \E k \in 1..Len(lines) :
          /\ InBlock(lines, FirstBlockStart(lines), k)
          /\ IsDisallowLine(lines[k])
          /\ LineValue(lines[k], 9) = <<"/">>

\* C10: for a fetched robots.txt, checkRobotsTxt reports disallowed exactly when
\* the first block whose User-agent line names "*" or the configured agent
\* contains "Disallow: /", the line prefixes being matched case-insensitively
\* (e.g. "User-agent: *" then "Disallow: /"); a "Disallow: /" in a later block
\* for another agent does not disallow.
C10_DisallowedIffFirstBlockDisallowsAll ==
    (Len(fnOut) = 1 /\ ~fnOut[1].err /\ fnIn.resp.kind = "response" /\ fnIn.resp.status = 200)
        => (fnOut[1].allowed = ~FirstBlockDisallowsAll(fnIn.resp.body))

(***************************************************************************)
(* Content quality (ContentQualityAnalyzer).  A page is given by what the  *)
(* extractor and extractMetrics read off its content; scores are in units  *)
(* of 1/30000, so that every weighted sub-score is an integer.             *)
(***************************************************************************)
ScoreUnit == 30000

\* the word sub-score without its cap at 500 words
WordScoreLinear(metrics) ==
    IF metrics.WordCount >= 100 THEN metrics.WordCount * 18 ELSE 0

\* a scorer that gives nothing for a title
TitleScoreNone(metrics) == 0

\* QualityScorer.CalculateScore with the weights of NewContentQualityAnalyzer
WordScore(metrics) ==
    IF metrics.WordCount >= 500 THEN 9000
    ELSE IF metrics.WordCount >= 100 THEN metrics.WordCount * 18
    ELSE 0

\* a code-block score that is all or nothing
CodeScoreAtCapOnly(metrics) ==
    IF metrics.CodeBlockCount >= 3 THEN 6000 ELSE 0

CodeScore(metrics) ==
    IF metrics.CodeBlockCount >= 3 THEN 6000
    ELSE IF metrics.CodeBlockCount > 0 THEN metrics.CodeBlockCount * 2000
    ELSE 0

HeaderScore(metrics) ==
    IF metrics.HeaderCount >= 3 THEN 4500
    ELSE IF metrics.HeaderCount > 0 THEN metrics.HeaderCount * 1500
    ELSE 0

ContentRatioScore(metrics) ==
    IF metrics.ContentRatio > 100 THEN 4500 ELSE metrics.ContentRatio * 45

TitleScore(metrics) == IF metrics.HasTitle THEN 3000 ELSE 0

CalculateScore(metrics) ==
    WordScore(metrics) + CodeScore(metrics) + HeaderScore(metrics)
        + ContentRatioScore(metrics) + TitleScore(metrics)

Issue(type, severity) == [Type |-> type, Severity |-> severity]

\* an issue detector without the minimum word count check
DetectIssuesNoWordCount(qconfig, content) ==
    (IF qconfig.RequireTitle /\ ~content.HasTitle
        THEN <<Issue("missing_title", "error")>> ELSE <<>>)
    \o (IF qconfig.RequireContent /\ content.Blank
        THEN <<Issue("empty_content", "error")>> ELSE <<>>)
    \o (IF content.Blacklisted
        THEN <<Issue("blacklisted_content", "warning")>> ELSE <<>>)

\* the issues DetectIssues reports for a page, in the order it appends them
DetectIssues(qconfig, content) ==
    (IF content.WordCount < qconfig.MinWordCount
        THEN <<Issue("word_count", "warning")>> ELSE <<>>)
    \o (IF qconfig.RequireTitle /\ ~content.HasTitle
        THEN <<Issue("missing_title", "error")>> ELSE <<>>)
    \o (IF qconfig.RequireContent /\ content.Blank
        THEN <<Issue("empty_content", "error")>> ELSE <<>>)
    \o (IF content.Blacklisted
        THEN <<Issue("blacklisted_content", "warning")>> ELSE <<>>)

AnalyzeContent(qconfig, content) ==
    [Score |-> CalculateScore(content),
     WordCount |-> content.WordCount,
     IsNavigationPage |-> content.Navigation,
     Issues |-> DetectIssues(qconfig, content)]

\* a filter that skips a page for an issue of any severity
ShouldSkipAnyIssue(qconfig, quality) ==
    IF quality.Score * 10 < 3 * ScoreUnit THEN TRUE
    ELSE IF qconfig.SkipNavigationPages /\ quality.IsNavigationPage THEN TRUE
    ELSE Len(quality.Issues) > 0

ShouldSkip(qconfig, quality) ==
    IF quality.Score * 10 < 3 * ScoreUnit THEN TRUE
    ELSE IF qconfig.SkipNavigationPages /\ quality.IsNavigationPage THEN TRUE
    ELSE \E i \in 1..Len(quality.Issues) : quality.Issues[i].Severity = "error"

\* cfg.QualityAnalysis as SetDefaults fills it in
QualityDefaults ==
    [MinScore |-> 15000, MinWordCount |-> 50, RequireTitle |-> TRUE,
     RequireContent |-> TRUE, SkipNavigationPages |-> TRUE]

(***************************************************************************)
(* The sites crawled.  A site maps the URL of a page to its content and    *)
(* its links; any other URL answers 404.                                   *)
(***************************************************************************)
GoodContent ==
    [WordCount |-> 600, CodeBlockCount |-> 3, HeaderCount |-> 3, ContentRatio |-> 100,
     HasTitle |-> TRUE, Navigation |-> FALSE, Blank |-> FALSE, Blacklisted |-> FALSE]

NavigationContent == [GoodContent EXCEPT !.Navigation = TRUE]

PoorContent ==
    [WordCount |-> 10, CodeBlockCount |-> 0, HeaderCount |-> 0, ContentRatio |-> 100,
     HasTitle |-> FALSE, Navigation |-> FALSE, Blank |-> FALSE, Blacklisted |-> FALSE]

BlankContent ==
    [WordCount |-> 0, CodeBlockCount |-> 0, HeaderCount |-> 0, ContentRatio |-> 0,
     HasTitle |-> TRUE, Navigation |-> FALSE, Blank |-> TRUE, Blacklisted |-> FALSE]

RootURL == <<"h","t","t","p",":","/","/","a",".","i","o","/">>

Page(content, links) == [status |-> 200, content |-> content, links |-> links]

\* two spellings of one page, each linking to a spelling of a third, missing page
SiteSpellings ==
    (RootURL :> Page(GoodContent, <<<<"/","a">>, <<"/","a","/">>>>))
    @@ (<<"h","t","t","p",":","/","/","a",".","i","o","/","a">> :> Page(NavigationContent, <<<<"/","c">>>>))
    @@ (<<"h","t","t","p",":","/","/","a",".","i","o","/","a","/">> :> Page(NavigationContent, <<<<"/","c","/">>>>))

\* poor, blank and missing pages, an anchor, a link back to the root and an external link
SiteMixed ==
    (RootURL :> Page(GoodContent, <<<<"#","t","o","p">>, <<"/","p">>, <<"/","g","o","n","e">>, <<"h","t","t","p",":","/","/","b",".","i","o","/","x">>>>))
    @@ (<<"h","t","t","p",":","/","/","a",".","i","o","/","p">> :> Page(PoorContent, <<<<"/">>, <<"/","q">>>>))
    @@ (<<"h","t","t","p",":","/","/","a",".","i","o","/","q">> :> Page(BlankContent, <<>>))

DocsLink == <<"h","t","t","p",":","/","/","a",".","i","o","/","d","o","c","s","/">>
DocsUpperLink == <<"h","t","t","p",":","/","/","A",".","i","o","/","d","o","c","s","/">>
ExternalLink == <<"h","t","t","p",":","/","/","b",".","i","o","/","x">>

\* a root page linking to a page of the site under two spellings of the host,
\* and to a page of another site
SiteCase ==
    (RootURL :> Page(GoodContent, <<DocsLink, DocsUpperLink, ExternalLink>>))
    @@ (DocsLink :> Page(GoodContent, <<>>))

Sites == {SiteSpellings, SiteMixed, SiteCase}

(***************************************************************************)
(* The crawl: Scrape / ScrapeWithFeatures on an asynchronous collector.    *)
(* Every accepted request runs in a goroutine of its own; a goroutine's    *)
(* steps are split where it touches state shared with the others.          *)
(***************************************************************************)
Parallelism == 2

MaxDepthLimit == 2

\* the feature switches and limits of a run
Configs ==
    {c \in [dedup : BOOLEAN, quality : BOOLEAN, progress : BOOLEAN,
            RespectRobots : BOOLEAN, MaxDepth : 0..MaxDepthLimit] :
        c.progress => c.quality}

\* what http.Get of robots.txt can answer
CrawlRobots ==
    {[kind |-> "error", status |-> 0, body |-> <<>>],
     [kind |-> "response", status |-> 404, body |-> <<>>],
     [kind |-> "response", status |-> 200, body |-> <<<<"u","s","e","r","-","a","g","e","n","t",":"," ","*">>, <<"d","i","s","a","l","l","o","w",":"," ","/","x">>>>],
     [kind |-> "response", status |-> 200, body |-> <<<<"u","s","e","r","-","a","g","e","n","t",":"," ","*">>, <<"d","i","s","a","l","l","o","w",":"," ","/">>>>]}

\* the OnHTML callbacks in registration order: OnHTML appends to the list
Handlers(c) ==
    <<"html", "links">>
        \o (IF c.dedup THEN <<"dedup">> ELSE <<>>)
        \o (IF c.quality THEN <<"quality">> ELSE <<>>)

\* the robots check and the progress callback are exercised on the mixed site
Scenarios ==
    {s \in [cfg : Configs, site : Sites] :
        /\ s.cfg.RespectRobots => s.site = SiteMixed
        /\ s.cfg.progress => s.site \in {SiteMixed, SiteCase}}

Init ==
    /\ \E s \in Scenarios : cfg = s.cfg /\ site = s.site
    /\ scrapePc = "start"
    /\ robotsResult = NoRobots
    /\ reqs = <<>>
    /\ visited = {}
    /\ waitChan = 0
    /\ pages = <<>>
    /\ currentProgress = 0
    /\ statsTotal = 0
    /\ fatal = FALSE
    /\ events = {}
    /\ IdleTree
    /\ normalizer = DefaultPolicy
    /\ seenURLs = {}
    /\ canonicalMap = {}
    /\ duplicateCount = 0
    /\ IdleObs /\ IdleFn

NewRequest(depth) ==
    [depth |-> depth, pc |-> "request", fetched |-> FALSE, h |-> 0, li |-> 0,
     snap |-> <<>>, flag |-> FALSE, n |-> 0]

Finished(r) ==
    [r EXCEPT !.pc = "done", !.h = 0, !.li = 0, !.snap = <<>>, !.flag = FALSE, !.n = 0]

\* a callback is run once per matching element: "html" matches once, "a[href]" per link
HasElements(u, kind) == kind \in {"html", "quality"} \/ Len(site[u].links) > 0

\* the first callback from position h on that matches an element of page u (0: none)
NextCallback(u, h) ==
    IF \E k \in h..Len(Handlers(cfg)) : HasElements(u, Handlers(cfg)[k])
    THEN CHOOSE k \in h..Len(Handlers(cfg)) :
            /\ HasElements(u, Handlers(cfg)[k])
            /\ \A j \in h..(k - 1) : ~HasElements(u, Handlers(cfg)[j])
    ELSE 0

GotoCallback(u, r, k) ==
    IF k = 0 THEN Finished(r)
    ELSE [r EXCEPT !.pc = "handler", !.h = k, !.li = 1, !.snap = <<>>, !.flag = FALSE, !.n = 0]

\* the request after its current callback has run on its current element
Advance(u, r) ==
    IF Handlers(cfg)[r.h] \in {"links", "dedup"} /\ r.li < Len(site[u].links)
    THEN [r EXCEPT !.pc = "handler", !.li = r.li + 1, !.flag = FALSE]
    ELSE GotoCallback(u, r, NextCallback(u, r.h + 1))

Running(u, pc) ==
    /\ ~fatal
    /\ scrapePc = "wait"
    /\ u \in DOMAIN reqs
    /\ reqs[u].pc = pc

InCallback(u, kind) ==
    /\ Running(u, "handler")
    /\ Handlers(cfg)[reqs[u].h] = kind

\* Request.AbsoluteURL
AbsoluteOfParsed(baseURL, linkURL) ==
    IF ~linkURL.ok THEN <<>>
    ELSE URLString([ResolveReference(baseURL, linkURL) EXCEPT !.fragment = <<>>])

AbsoluteURL(u, link) ==
    IF HasPrefix(link, <<"#">>) THEN <<>> ELSE AbsoluteOfParsed(ParseURL(u), ParseURL(link))

\* the collector takes a URL: it is not empty, its host is allowed, it was not visited
Accepted(absoluteURL) ==
    /\ absoluteURL # <<>>
    /\ ParseURL(absoluteURL).host = ParseURL(RootURL).host
    /\ absoluteURL \notin visited

\* Collector.Visit / Request.Visit: check and mark visited, start the goroutine
Visit(absoluteURL, depth, others) ==
    IF Accepted(absoluteURL)
    THEN /\ visited' = visited \cup {absoluteURL}
         /\ reqs' = (absoluteURL :> NewRequest(depth)) @@ others
    ELSE /\ visited' = visited
         /\ reqs' = others

CurrentLink(u) == site[u].links[reqs[u].li]

PageData(u) == [URL |-> u, Depth |-> reqs[u].depth]

fixedVars == <<cfg, site, normalizer, obsVars, fnVars, treeVars>>

SetReq(u, r) == [reqs EXCEPT ![u] = r]

\* a Scrape that starts the crawl whatever checkRobotsTxt returned
ScrapeIgnoringRobots(resp, result) ==
    /\ robotsResult' = [kind |-> resp.kind, status |-> resp.status,
                        allowed |-> result.allowed, err |-> result.err]
    /\ scrapePc' = "visit"

\* Scrape after checkRobotsTxt has returned
ScrapeAfterRobots(resp, result) ==
    /\ robotsResult' = [kind |-> resp.kind, status |-> resp.status,
                        allowed |-> result.allowed, err |-> result.err]
    /\ scrapePc' = IF result.err THEN "visit"
                   ELSE IF ~result.allowed THEN "failed"
                   ELSE "visit"

\* Scrape up to the call of collector.Visit
ScrapeStart ==
    /\ scrapePc = "start"
    /\ IF cfg.RespectRobots
       THEN \E resp \in CrawlRobots : ScrapeAfterRobots(resp, checkRobotsTxt(RootURL, resp))
       ELSE /\ scrapePc' = "visit"
            /\ robotsResult' = robotsResult
    /\ UNCHANGED <<fixedVars, seenURLs, canonicalMap, duplicateCount, reqs, visited,
                   waitChan, pages, currentProgress, statsTotal, fatal, events>>

\* s.collector.Visit(s.config.RootURL): the root request has depth 1
VisitRoot ==
    /\ scrapePc = "visit"
    /\ scrapePc' = "wait"
    /\ Visit(RootURL, 1, reqs)
    /\ UNCHANGED <<fixedVars, seenURLs, canonicalMap, duplicateCount, robotsResult,
                   waitChan, pages, currentProgress, statsTotal, fatal, events>>

\* a Wait that does not wait for the goroutines
WaitReturnsEarly ==
    /\ ~fatal
    /\ scrapePc = "wait"
    /\ scrapePc' = "returned"
    /\ UNCHANGED <<fixedVars, seenURLs, canonicalMap, duplicateCount, robotsResult, reqs,
                   visited, waitChan, pages, currentProgress, statsTotal, fatal, events>>

\* s.collector.Wait() returns when every goroutine has ended; Scrape returns nil
WaitReturns ==
    /\ ~fatal
    /\ scrapePc = "wait"
    /\ \A u \in DOMAIN reqs : reqs[u].pc = "done"
    /\ scrapePc' = "returned"
    /\ UNCHANGED <<fixedVars, seenURLs, canonicalMap, duplicateCount, robotsResult, reqs,
                   visited, waitChan, pages, currentProgress, statsTotal, fatal, events>>

\* an OnRequest callback without the depth check
OnRequestNoCheck(u, r) == [r EXCEPT !.pc = "http", !.fetched = TRUE]

\* the OnRequest callback: a request deeper than MaxDepth is aborted
OnRequestDepth(u, r) ==
    IF r.depth > cfg.MaxDepth THEN Finished(r) ELSE [r EXCEPT !.pc = "http", !.fetched = TRUE]

\* a request that was not aborted is sent once the limit rule has a free slot
SendRequest(u, r) ==
    /\ r.fetched => waitChan < Parallelism
    /\ waitChan' = IF r.fetched THEN waitChan + 1 ELSE waitChan
    /\ reqs' = SetReq(u, r)
    /\ UNCHANGED <<fixedVars, seenURLs, canonicalMap, duplicateCount, scrapePc,
                   robotsResult, visited, pages, currentProgress, statsTotal, fatal,
                   events>>

OnRequest(u) ==
    /\ Running(u, "request")
    /\ SendRequest(u, OnRequestDepth(u, reqs[u]))

\* the response arrives: a page runs the OnHTML callbacks, anything else OnError
HTTPFinish(u) ==
    /\ Running(u, "http")
    /\ waitChan' = waitChan - 1
    /\ reqs' = SetReq(u, IF u \in DOMAIN site
                         THEN GotoCallback(u, reqs[u], NextCallback(u, 1))
                         ELSE Finished(reqs[u]))
    /\ UNCHANGED <<fixedVars, seenURLs, canonicalMap, duplicateCount, scrapePc,
                   robotsResult, visited, pages, currentProgress, statsTotal, fatal, events>>

\* OnHTML("html") of setupCallbacks: extractPageContent up to the read of s.pages
ExtractPageContent(u) ==
    /\ InCallback(u, "html")
    /\ reqs' = SetReq(u, IF site[u].content.Blank
                         THEN Advance(u, reqs[u])
                         ELSE [reqs[u] EXCEPT !.pc = "store", !.snap = pages])
    /\ UNCHANGED <<fixedVars, seenURLs, canonicalMap, duplicateCount, scrapePc,
                   robotsResult, visited, waitChan, pages, currentProgress, statsTotal,
                   fatal, events>>

\* s.pages = append(s.pages, pageData): the write
ExtractStore(u) ==
    /\ Running(u, "store")
    /\ pages' = Append(reqs[u].snap, PageData(u))
    /\ reqs' = SetReq(u, Advance(u, reqs[u]))
    /\ UNCHANGED <<fixedVars, seenURLs, canonicalMap, duplicateCount, scrapePc,
                   robotsResult, visited, waitChan, currentProgress, statsTotal, fatal,
                   events>>

\* OnHTML("a[href]") of setupCallbacks on one link
FollowLink(u) ==
    /\ InCallback(u, "links")
    /\ IF shouldFollowLink(CurrentLink(u), ParseURL(u))
       THEN Visit(AbsoluteURL(u, CurrentLink(u)), reqs[u].depth + 1,
                  SetReq(u, Advance(u, reqs[u])))
       ELSE /\ reqs' = SetReq(u, Advance(u, reqs[u]))
            /\ visited' = visited
    /\ UNCHANGED <<fixedVars, seenURLs, canonicalMap, duplicateCount, scrapePc,
                   robotsResult, waitChan, pages, currentProgress, statsTotal, fatal,
                   events>>

\* OnHTML("a[href]") of setupDeduplicationCallbacks on one link, up to AddURL
DedupLinkChecked(u, follow, normalized) ==
    /\ reqs' = SetReq(u, IF follow /\ ~IsDuplicateResult(normalized, seenURLs)
                         THEN [reqs[u] EXCEPT !.pc = "addurl"]
                         ELSE Advance(u, reqs[u]))
    /\ UNCHANGED <<fixedVars, seenURLs, canonicalMap, duplicateCount, scrapePc,
                   robotsResult, visited, waitChan, pages, currentProgress, statsTotal,
                   fatal, events>>

DedupLink(u) ==
    /\ InCallback(u, "dedup")
    /\ DedupLinkChecked(u, shouldFollowLink(CurrentLink(u), ParseURL(u)),
                        NormalizeURL(normalizer, AbsoluteURL(u, CurrentLink(u))))

\* AddURL reading ld.seenURLs[normalized]
AddURLLookup(u, normalized) ==
    /\ reqs' = SetReq(u, [reqs[u] EXCEPT !.pc = "addwrite",
                             !.flag = (~normalized.ok \/ normalized.url \in seenURLs)])
    /\ UNCHANGED <<fixedVars, seenURLs, canonicalMap, duplicateCount, scrapePc,
                   robotsResult, visited, waitChan, pages, currentProgress, statsTotal,
                   fatal, events>>

AddURLRead(u) ==
    /\ Running(u, "addurl")
    /\ AddURLLookup(u, NormalizeURL(normalizer, AbsoluteURL(u, CurrentLink(u))))

\* AddURL acting on what it read (count a duplicate, or write the two maps), and
\* then e.Request.Visit(link)
AddURLStore(u, absoluteURL, normalized) ==
    /\ IF reqs[u].flag
       THEN /\ duplicateCount' = duplicateCount + 1
            /\ UNCHANGED <<seenURLs, canonicalMap>>
            /\ events' = events \cup {[kind |-> "visit", url |-> absoluteURL, by |-> u]}
       ELSE /\ seenURLs' = seenURLs \cup {normalized.url}
            /\ canonicalMap' = MapPut(canonicalMap, absoluteURL, normalized.url)
            /\ duplicateCount' = duplicateCount
            /\ events' = events \cup {[kind |-> "admit", url |-> absoluteURL, by |-> u],
                                       [kind |-> "visit", url |-> absoluteURL, by |-> u]}
    /\ Visit(absoluteURL, reqs[u].depth + 1, SetReq(u, Advance(u, reqs[u])))
    /\ UNCHANGED <<fixedVars, scrapePc, robotsResult, waitChan, pages, currentProgress,
                   statsTotal, fatal>>

AddURLWrite(u) ==
    /\ Running(u, "addwrite")
    /\ AddURLStore(u, AbsoluteURL(u, CurrentLink(u)),
                   NormalizeURL(normalizer, AbsoluteURL(u, CurrentLink(u))))

\* two goroutines write ld.seenURLs at once: the runtime may stop the program
ConcurrentMapWrites ==
    /\ ~fatal
    /\ scrapePc = "wait"
    /\ \E u1, u2 \in DOMAIN reqs :
          u1 # u2 /\ reqs[u1].pc = "addwrite" /\ reqs[u2].pc = "addwrite"
    /\ fatal' = TRUE
    /\ UNCHANGED <<fixedVars, seenURLs, canonicalMap, duplicateCount, scrapePc,
                   robotsResult, reqs, visited, waitChan, pages, currentProgress,
                   statsTotal, events>>

\* the three checks of the quality callback on the analysed page
MeetsStandards(qconfig, content, quality) ==
    /\ ~(quality.Score < qconfig.MinScore)
    /\ ~(content.WordCount < qconfig.MinWordCount)
    /\ ~content.Blacklisted

\* OnHTML("html") of setupQualityAnalysisCallbacks up to the read of es.pages
QualityHTML(u) ==
    /\ InCallback(u, "quality")
    /\ statsTotal' = statsTotal + 1
    /\ reqs' = SetReq(u, IF MeetsStandards(QualityDefaults, site[u].content,
                                           AnalyzeContent(QualityDefaults, site[u].content))
                         THEN [reqs[u] EXCEPT !.pc = "qstore", !.snap = pages]
                         ELSE Advance(u, reqs[u]))
    /\ UNCHANGED <<fixedVars, seenURLs, canonicalMap, duplicateCount, scrapePc,
                   robotsResult, visited, waitChan, pages, currentProgress, fatal, events>>

\* es.pages = append(es.pages, page): the write
QualityStore(u) ==
    /\ Running(u, "qstore")
    /\ pages' = Append(reqs[u].snap, PageData(u))
    /\ reqs' = SetReq(u, IF cfg.progress
                         THEN [reqs[u] EXCEPT !.pc = "progress", !.snap = <<>>]
                         ELSE Advance(u, reqs[u]))
    /\ UNCHANGED <<fixedVars, seenURLs, canonicalMap, duplicateCount, scrapePc,
                   robotsResult, visited, waitChan, currentProgress, statsTotal, fatal,
                   events>>

\* es.currentProgress++: the read
ProgressRead(u) ==
    /\ Running(u, "progress")
    /\ reqs' = SetReq(u, [reqs[u] EXCEPT !.pc = "progressed", !.n = currentProgress])
    /\ UNCHANGED <<fixedVars, seenURLs, canonicalMap, duplicateCount, scrapePc,
                   robotsResult, visited, waitChan, pages, currentProgress, statsTotal,
                   fatal, events>>

\* es.currentProgress++: the write, and the call of the progress callback
ProgressWrite(u) ==
    /\ Running(u, "progressed")
    /\ currentProgress' = reqs[u].n + 1
    /\ reqs' = SetReq(u, Advance(u, reqs[u]))
    /\ UNCHANGED <<fixedVars, seenURLs, canonicalMap, duplicateCount, scrapePc,
                   robotsResult, visited, waitChan, pages, statsTotal, fatal, events>>

\* the URLs a request can have
RequestURLs == DOMAIN reqs

StepOnRequest == \E u \in RequestURLs : OnRequest(u)

StepHTTPFinish == \E u \in RequestURLs : HTTPFinish(u)

StepExtractPageContent == \E u \in RequestURLs : ExtractPageContent(u)

StepExtractStore == \E u \in RequestURLs : ExtractStore(u)

StepFollowLink == \E u \in RequestURLs : FollowLink(u)

StepDedupLink == \E u \in RequestURLs : DedupLink(u)

StepAddURLRead == \E u \in RequestURLs : AddURLRead(u)

StepAddURLWrite == \E u \in RequestURLs : AddURLWrite(u)

StepQualityHTML == \E u \in RequestURLs : QualityHTML(u)

StepQualityStore == \E u \in RequestURLs : QualityStore(u)

StepProgressRead == \E u \in RequestURLs : ProgressRead(u)

StepProgressWrite == \E u \in RequestURLs : ProgressWrite(u)

Next ==
    \/ ScrapeStart
    \/ VisitRoot
    \/ WaitReturns
    \/ StepOnRequest
    \/ StepHTTPFinish
    \/ StepExtractPageContent
    \/ StepExtractStore
    \/ StepFollowLink
    \/ StepDedupLink
    \/ StepAddURLRead
    \/ StepAddURLWrite
    \/ ConcurrentMapWrites
    \/ StepQualityHTML
    \/ StepQualityStore
    \/ StepProgressRead
    \/ StepProgressWrite

Spec == Init /\ [][Next]_vars

(***************************************************************************)
(* Properties of the crawl (Spec).                                         *)
(***************************************************************************)
Canonical(u) == NormalizeURL(normalizer, u)

\* C1: when two crawl workers concurrently handle links whose URLs have the same
\* canonical form, at most one of them admits the URL: never do both AddURL calls
\* return true, and never do both workers go on to visit the link.
C1_OneWorkerAdmits ==
    \A e1, e2 \in events :
        (e1.kind = e2.kind /\ e1.by # e2.by) => Canonical(e1.url) # Canonical(e2.url)

\* C2: when ScrapeWithFeatures returns with deduplication enabled, no two entries
\* of the returned page list have URLs with equal normalized forms.
C2_OnePagePerCanonicalURL ==
    (scrapePc = "returned" /\ cfg.dedup) =>
        \A i, j \in 1..Len(pages) :
            i # j => Canonical(pages[i].URL) # Canonical(pages[j].URL)

\* the number of links followed from the root to reach a request
Hops(r) == r.depth - 1

\* C7: in every reachable state of a crawl, no request whose depth (hops from the
\* root) exceeds MaxDepth is fetched, and every entry of the page list has a depth
\* of at most MaxDepth.
C7_DepthBounded ==
    /\ \A u \in DOMAIN reqs : reqs[u].fetched => Hops(reqs[u]) <= cfg.MaxDepth
    /\ \A i \in 1..Len(pages) : pages[i].Depth <= cfg.MaxDepth

\* C7 witness: a page at the deepest allowed level is stored while a request one
\* level deeper has been aborted without being fetched.
C7_Witness ==
    /\ \E i \in 1..Len(pages) : pages[i].Depth = cfg.MaxDepth
    /\ \E u \in DOMAIN reqs :
          reqs[u].depth > cfg.MaxDepth /\ reqs[u].pc = "done" /\ ~reqs[u].fetched

\* the fetched pages that ShouldSkip does not reject
PassedGate ==
    {u \in DOMAIN reqs \cap DOMAIN site :
        /\ reqs[u].fetched
        /\ ~ShouldSkip(QualityDefaults, AnalyzeContent(QualityDefaults, site[u].content))}

\* C8: with quality analysis enabled, the page list returned by ScrapeWithFeatures
\* holds no page for which ShouldSkip is true, and holds exactly the fetched pages
\* that passed that gate.
C8_ReturnedPagesPassedGate ==
    (scrapePc = "returned" /\ cfg.quality) =>
        {pages[i].URL : i \in 1..Len(pages)} = PassedGate

\* C9: with RespectRobots enabled, no page is requested before the robots.txt
\* check; if the check reports disallowed, Scrape returns an error and no request
\* is ever issued; if robots.txt cannot be fetched or answers 404, the check
\* reports allowed and the crawl proceeds.
C9_RobotsCheckedFirst ==
    /\ (cfg.RespectRobots /\ robotsResult = NoRobots) => (visited = {} /\ DOMAIN reqs = {})
    /\ (robotsResult.kind # "none" /\ ~robotsResult.err /\ ~robotsResult.allowed) =>
          (scrapePc = "failed" /\ visited = {} /\ DOMAIN reqs = {})
    /\ (robotsResult.kind = "error" \/ robotsResult.status = 404) =>
          (robotsResult.allowed /\ (scrapePc = "visit" \/ RootURL \in visited))

\* C9 witness: robots.txt was fetched and disallows the site, and Scrape has
\* returned its error without a single request.
C9_Witness ==
    /\ cfg.RespectRobots
    /\ robotsResult.kind = "response"
    /\ robotsResult.status = 200
    /\ ~robotsResult.allowed
    /\ scrapePc = "failed"
    /\ DOMAIN reqs = {}

(***************************************************************************)
(* Scoring a page (SpecScore).  A page is given by its title, the counts   *)
(* extractMetrics takes from its text, and the lengths of the text and of  *)
(* the boilerplate matched in it; the content ratio is an integer percent. *)
(***************************************************************************)
estimateContentRatio(totalLength, boilerplateLength) ==
    IF totalLength = 0 THEN 0
    ELSE IF totalLength - boilerplateLength < 0 THEN 0
    ELSE ((totalLength - boilerplateLength) * 100) \div totalLength

Untitled == <<"U","n","t","i","t","l","e","d">>

extractMetrics(page) ==
    [WordCount |-> page.WordCount,
     CodeBlockCount |-> page.CodeBlockCount,
     HeaderCount |-> page.HeaderCount,
     ContentRatio |-> estimateContentRatio(page.TotalLength, page.BoilerplateLength),
     HasTitle |-> page.Title # <<>> /\ page.Title # Untitled]

ScoreTitles == {<<>>, Untitled, <<"G","u","i","d","e">>}
ScoreWordCounts == {0, 49, 50, 99, 100, 250, 499, 500, 1200}
ScoreCounts == {0, 1, 2, 3, 4}
\* <<length of the text, length of the boilerplate matched in it>>
ScoreLengths ==
    {<<0, 0>>, <<20, 5>>, <<100, 0>>, <<100, 10>>, <<100, 20>>, <<100, 21>>,
     <<100, 79>>, <<100, 80>>, <<100, 100>>}

ScorePages ==
    {[Title |-> t, WordCount |-> w, CodeBlockCount |-> c, HeaderCount |-> h,
      TotalLength |-> l[1], BoilerplateLength |-> l[2]] :
        t \in ScoreTitles, w \in ScoreWordCounts, c \in ScoreCounts,
        h \in ScoreCounts, l \in ScoreLengths}

InitScore ==
    /\ fnIn \in ScorePages
    /\ fnOut = <<>>
    /\ IdleDedup /\ IdleObs /\ IdleCrawl /\ IdleTree

\* the scoring half of AnalyzeContent: extractMetrics, then CalculateScore
EvalScore ==
    /\ fnOut = <<>>
    /\ fnOut' = <<[metrics |-> extractMetrics(fnIn),
                   score |-> CalculateScore(extractMetrics(fnIn))]>>
    /\ UNCHANGED <<fnIn, dedupVars, obsVars, crawlVars, treeVars>>

NextScore == EvalScore

SpecScore == InitScore /\ [][NextScore]_vars

Scored == Len(fnOut) = 1

\* C11: for every page, whatever its word count, code-block count, header
\* count, content ratio and title, the score lies between 0 and 1.
C11_ScoreInUnitInterval ==
    Scored => (fnOut[1].score >= 0 /\ fnOut[1].score <= ScoreUnit)

\* a page with every sub-score at its cap has been scored
C11_Witness ==
    /\ Scored
    /\ fnIn.WordCount > 500 /\ fnIn.CodeBlockCount > 3 /\ fnIn.HeaderCount > 3
    /\ fnOut[1].metrics.ContentRatio = 100 /\ fnOut[1].metrics.HasTitle
    /\ fnOut[1].score = 27000

\* the two kinds of page the scale is calibrated on
HighQualityPage ==
    /\ fnIn.WordCount >= 500 /\ fnIn.CodeBlockCount >= 3 /\ fnIn.HeaderCount >= 3
    /\ fnOut[1].metrics.ContentRatio >= 80

LowQualityPage ==
    /\ fnIn.WordCount < 50 /\ fnIn.CodeBlockCount = 0 /\ fnIn.HeaderCount = 0
    /\ fnOut[1].metrics.ContentRatio <= 20
    /\ fnIn.Title = <<>>

\* C12: with the default weights, a page with at least 500 words, 3 code
\* blocks, 3 headers, a content ratio of at least 0.8 and a title that is
\* neither empty nor the placeholder "Untitled" scores at least 0.8; a page
\* with fewer than 50 words, no code blocks, no headers, a content ratio of at
\* most 0.2 and no title scores at most 0.3.
C12_CalibratedScores ==
    Scored =>
        /\ (HighQualityPage /\ fnIn.Title # <<>> /\ fnIn.Title # Untitled)
               => fnOut[1].score * 10 >= 8 * ScoreUnit
        /\ LowQualityPage => fnOut[1].score * 10 <= 3 * ScoreUnit

\* a page of the first kind at the edge of its conditions has been scored
C12_Witness ==
    /\ Scored /\ HighQualityPage
    /\ fnIn.WordCount = 500 /\ fnIn.CodeBlockCount = 3 /\ fnIn.HeaderCount = 3
    /\ fnOut[1].metrics.ContentRatio = 80
    /\ fnIn.Title # <<>> /\ fnIn.Title # Untitled
    /\ fnOut[1].score = 26100

\* C12 as stated: the first bound holds for any non-empty title string
C12_AnyNonEmptyTitle ==
    Scored =>
        /\ (HighQualityPage /\ fnIn.Title # <<>>)
               => fnOut[1].score * 10 >= 8 * ScoreUnit
        /\ LowQualityPage => fnOut[1].score * 10 <= 3 * ScoreUnit

(***************************************************************************)
(* ShouldSkip on any ContentQuality value (SpecSkip).                      *)
(***************************************************************************)
SkipScores == {0, 8999, 9000, 9001, 15000, 27000}
Severities == {"error", "warning", "info"}
SkipIssues ==
    {<<>>}
    \cup {<<Issue("first", s)>> : s \in Severities}
    \cup {<<Issue("first", s), Issue("second", t)>> : s \in Severities, t \in Severities}

SkipQualities ==
    [Score : SkipScores, WordCount : {120}, IsNavigationPage : BOOLEAN, Issues : SkipIssues]

SkipConfigs == {[QualityDefaults EXCEPT !.SkipNavigationPages = b] : b \in BOOLEAN}

InitSkip ==
    /\ fnIn \in [quality : SkipQualities, qconfig : SkipConfigs]
    /\ fnOut = <<>>
    /\ IdleDedup /\ IdleObs /\ IdleCrawl /\ IdleTree

EvalShouldSkip ==
    /\ fnOut = <<>>
    /\ fnOut' = <<ShouldSkip(fnIn.qconfig, fnIn.quality)>>
    /\ UNCHANGED <<fnIn, dedupVars, obsVars, crawlVars, treeVars>>

NextSkip == EvalShouldSkip

SpecSkip == InitSkip /\ [][NextSkip]_vars

IssueSeverities(quality) == {quality.Issues[i].Severity : i \in 1..Len(quality.Issues)}

\* C13: ShouldSkip(q) is true exactly when q.Score < 0.3, or skipping of
\* navigation pages is enabled and q.IsNavigationPage, or some issue of q has
\* severity "error"; issues of severity "warning" or "info" alone never cause
\* a skip.
C13_ShouldSkipExactly ==
    Len(fnOut) = 1 =>
        /\ fnOut[1] = (\/ fnIn.quality.Score * 10 < 3 * ScoreUnit
                       \/ fnIn.qconfig.SkipNavigationPages /\ fnIn.quality.IsNavigationPage
                       \/ "error" \in IssueSeverities(fnIn.quality))
        /\ (/\ fnIn.quality.Score * 10 >= 3 * ScoreUnit
            /\ ~fnIn.quality.IsNavigationPage
            /\ IssueSeverities(fnIn.quality) \subseteq {"warning", "info"})
               => ~fnOut[1]

\* a page scoring exactly 0.3 with a warning and an info issue was kept
C13_Witness ==
    /\ Len(fnOut) = 1
    /\ fnIn.quality.Score = 9000
    /\ ~fnIn.quality.IsNavigationPage
    /\ IssueSeverities(fnIn.quality) = {"warning", "info"}
    /\ fnOut[1] = FALSE

(***************************************************************************)
(* Analysing the text of a page (SpecIssues).  A page is its title and its *)
(* content, with the numbers of code blocks, headers and markdown links    *)
(* that the regular expressions find in that content.                      *)
(***************************************************************************)
\* len(strings.Fields(text))
countWords(text) ==
    Cardinality({i \in 1..Len(text) :
                    ~IsSpace(text[i]) /\ (i = 1 \/ IsSpace(text[i - 1]))})

\* len(re.FindAllString(text, -1)) for a literal pattern: leftmost matches
\* that do not overlap
RECURSIVE CountMatchesFrom(_, _, _)
CountMatchesFrom(text, pattern, i) ==
    IF i + Len(pattern) - 1 > Len(text) THEN 0
    ELSE IF SubSeq(text, i, i + Len(pattern) - 1) = pattern
        THEN 1 + CountMatchesFrom(text, pattern, i + Len(pattern))
    ELSE CountMatchesFrom(text, pattern, i + 1)

boilerplatePatterns ==
    <<<<"c","o","p","y","r","i","g","h","t">>, <<"a","l","l"," ","r","i","g","h","t","s"," ","r","e","s","e","r","v","e","d">>, <<"p","r","i","v","a","c","y"," ","p","o","l","i","c","y">>, <<"t","e","r","m","s"," ","o","f"," ","s","e","r","v","i","c","e">>,
      <<"c","o","o","k","i","e"," ","p","o","l","i","c","y">>, <<"n","e","w","s","l","e","t","t","e","r">>, <<"s","u","b","s","c","r","i","b","e">>, <<"f","o","l","l","o","w"," ","u","s">>, <<"s","o","c","i","a","l"," ","m","e","d","i","a">>,
      <<"n","a","v","i","g","a","t","i","o","n">>, <<"m","e","n","u">>, <<"f","o","o","t","e","r">>, <<"h","e","a","d","e","r">>>>

RECURSIVE BoilerplateFrom(_, _)
BoilerplateFrom(lower, k) ==
    IF k > Len(boilerplatePatterns) THEN 0
    ELSE Len(boilerplatePatterns[k]) * CountMatchesFrom(lower, boilerplatePatterns[k], 1)
            + BoilerplateFrom(lower, k + 1)

boilerplateLength(text) == BoilerplateFrom(ToLower(text), 1)

navIndicators ==
    <<<<"t","a","b","l","e"," ","o","f"," ","c","o","n","t","e","n","t","s">>, <<"n","a","v","i","g","a","t","i","o","n">>, <<"s","i","t","e"," ","m","a","p">>, <<"i","n","d","e","x">>, <<"d","i","r","e","c","t","o","r","y">>,
      <<"m","e","n","u">>, <<"l","i","n","k","s">>>>

IndicatorsIn(lower) ==
    Cardinality({k \in 1..Len(navIndicators) : Contains(lower, navIndicators[k])})

IsNavigationPage(page) ==
    IndicatorsIn(ToLower(page.Content)) + 2 * IndicatorsIn(ToLower(page.Title))
        + (IF countWords(page.Content) > 0
              /\ page.LinkCount * 10 > 3 * countWords(page.Content) THEN 1 ELSE 0)
        >= 2

BlacklistFound(qconfig, lower) ==
    \E k \in 1..Len(qconfig.BlacklistPatterns) :
        Contains(lower, ToLower(qconfig.BlacklistPatterns[k]))

\* what extractMetrics, IsNavigationPage and DetectIssues read off a page
Scraped(qconfig, page) ==
    [WordCount |-> countWords(page.Content),
     CodeBlockCount |-> page.CodeBlockCount,
     HeaderCount |-> page.HeaderCount,
     ContentRatio |-> estimateContentRatio(Len(page.Content), boilerplateLength(page.Content)),
     HasTitle |-> page.Title # <<>> /\ page.Title # Untitled,
     Navigation |-> IsNavigationPage(page),
     Blank |-> TrimSpace(page.Content) = <<>>,
     Blacklisted |-> BlacklistFound(qconfig, ToLower(page.Content))]

\* texts without a backquote, a "#" at the start of a line or a markdown link
IssueTitles == {<<>>, Untitled, <<"E","r","r","o","r"," ","P","a","g","e">>, <<"S","i","t","e"," ","M","a","p">>}
IssueContents ==
    {<<>>, <<" "," ">>, <<"E","r","r","o","r"," ","4","0","4">>, <<"E","r","r","o","r"," ","4","0","4"," ","-"," ","p","a","g","e"," ","n","o","t"," ","f","o","u","n","d">>,
     <<"M","e","n","u"," ","a","n","d"," ","n","a","v","i","g","a","t","i","o","n"," ","l","i","n","k","s">>, <<"o","n","e"," ","t","w","o"," ","t","h","r","e","e">>}
IssuePages ==
    {[Title |-> t, Content |-> c, CodeBlockCount |-> 0, HeaderCount |-> 0, LinkCount |-> 0] :
        t \in IssueTitles, c \in IssueContents}

IssueConfigs ==
    [MinScore : {0}, MinWordCount : {0, 3, 50}, RequireTitle : BOOLEAN,
     RequireContent : BOOLEAN, SkipNavigationPages : BOOLEAN,
     BlacklistPatterns : {<<>>, <<<<"4","0","4">>>>, <<<<"e","r","r","o","r">>, <<"4","0","4">>>>}]

InitIssues ==
    /\ fnIn \in [page : IssuePages, qconfig : IssueConfigs]
    /\ fnOut = <<>>
    /\ IdleDedup /\ IdleObs /\ IdleCrawl /\ IdleTree

EvalAnalyzeContent ==
    /\ fnOut = <<>>
    /\ fnOut' = <<AnalyzeContent(fnIn.qconfig, Scraped(fnIn.qconfig, fnIn.page))>>
    /\ UNCHANGED <<fnIn, dedupVars, obsVars, crawlVars, treeVars>>

EvalSkipAnalyzed ==
    /\ Len(fnOut) = 1
    /\ fnOut' = Append(fnOut, ShouldSkip(fnIn.qconfig, fnOut[1]))
    /\ UNCHANGED <<fnIn, dedupVars, obsVars, crawlVars, treeVars>>

NextIssues == EvalAnalyzeContent \/ EvalSkipAnalyzed

SpecIssues == InitIssues /\ [][NextIssues]_vars

\* QualityConfig{MinWordCount: 50, RequireTitle: true, BlacklistPatterns: ["404"]}
ErrorPageConfig ==
    [MinScore |-> 0, MinWordCount |-> 50, RequireTitle |-> TRUE, RequireContent |-> FALSE,
     SkipNavigationPages |-> FALSE, BlacklistPatterns |-> <<<<"4","0","4">>>>]

ErrorPageAnalyzed ==
    /\ fnIn.page.Title = <<>>
    /\ fnIn.page.Content = <<"E","r","r","o","r"," ","4","0","4">>
    /\ fnIn.qconfig = ErrorPageConfig
    /\ Len(fnOut) = 2

IssueTypes(quality) == [i \in 1..Len(quality.Issues) |-> quality.Issues[i].Type]

\* C14: analysing a page with title "" and content "Error 404" under
\* QualityConfig{MinWordCount: 50, RequireTitle: true, BlacklistPatterns:
\* ["404"]} produces exactly three issues, of types word_count, missing_title
\* and blacklisted_content, and ShouldSkip is true for the result.
C14_ErrorPageIssues ==
    ErrorPageAnalyzed =>
        /\ IssueTypes(fnOut[1]) = <<"word_count", "missing_title", "blacklisted_content">>
        /\ fnOut[2] = TRUE

\* the page has been analysed: two words, score 0.15, skipped
C14_Witness ==
    /\ ErrorPageAnalyzed
    /\ fnOut[1].WordCount = 2
    /\ fnOut[1].Score = 4500
    /\ Len(fnOut[1].Issues) = 3
    /\ fnOut[2] = TRUE

\* C14 as stated: exactly two issues, missing_title and blacklisted_content
C14_ExactlyTwoIssues ==
    ErrorPageAnalyzed =>
        /\ Len(fnOut[1].Issues) = 2
        /\ {fnOut[1].Issues[i].Type : i \in 1..Len(fnOut[1].Issues)}
               = {"missing_title", "blacklisted_content"}
        /\ fnOut[2] = TRUE

(***************************************************************************)
(* The document tree (SpecTree).  BuildTree runs on a list of page URLs    *)
(* and the set of URLs that have content; a node is named by its URL, the  *)
(* key under which NodeMap holds it.  Paths have no "." or ".." segment    *)
(* and no repeated slash.  The builder's configuration keeps SortChildren  *)
(* and AutoIndex off.                                                      *)
(***************************************************************************)
\* path.Dir
pathDir(p) ==
    IF LastIndexChar(p, "/") = 0 THEN <<".">>
    ELSE IF LastIndexChar(p, "/") = 1 THEN <<"/">>
    ELSE SubSeq(p, 1, LastIndexChar(p, "/") - 1)

extractPath(rawURL) == IF ParseURL(rawURL).ok THEN ParseURL(rawURL).path ELSE rawURL

\* the contents map handed to BuildTree: Title and Metadata.LastModified of
\* each scraped page
TreeHome == <<"h","t","t","p",":","/","/","a",".","i","o","/">>
TreeDocs == <<"h","t","t","p",":","/","/","a",".","i","o","/","d","o","c","s">>
TreeDocsSlash == <<"h","t","t","p",":","/","/","a",".","i","o","/","d","o","c","s","/">>
TreeGuide == <<"h","t","t","p",":","/","/","a",".","i","o","/","d","o","c","s","/","g","u","i","d","e">>
TreeStart == <<"h","t","t","p",":","/","/","a",".","i","o","/","d","o","c","s","/","g","u","i","d","e","/","s","t","a","r","t">>
TreeOther == <<"h","t","t","p",":","/","/","b",".","i","o","/","x">>

TitleOf(url) ==
    IF url = TreeHome THEN <<"H","o","m","e">>
    ELSE IF url = TreeDocs THEN <<"D","o","c","s">>
    ELSE IF url = TreeDocsSlash THEN <<"D","o","c","s">>
    ELSE IF url = TreeGuide THEN <<"Z","e","b","r","a">>
    ELSE IF url = TreeStart THEN <<"A","p","p","l","e">>
    ELSE IF url = TreeOther THEN <<"B","e","a","r">>
    ELSE <<"P","a","g","e">>

LastModifiedOf(url) ==
    IF url = TreeHome THEN 5
    ELSE IF url = TreeDocs THEN 4
    ELSE IF url = TreeDocsSlash THEN 4
    ELSE IF url = TreeGuide THEN 1
    ELSE IF url = TreeStart THEN 3
    ELSE IF url = TreeOther THEN 2
    ELSE 0

DocumentNode(url) ==
    [URL |-> url, Path |-> extractPath(url), Title |-> TitleOf(url),
     LastModified |-> LastModifiedOf(url), Parent |-> NoNode, Children |-> <<>>,
     Depth |-> 0, Level |-> 0, Index |-> 0]

\* the condition under which the scan returns an existing node
IsParentOf(existing, parsedURL, parentPath) ==
    /\ existing.ok
    /\ existing.host = parsedURL.host
    /\ \/ existing.path = parentPath
       \/ parentPath # <<"/">> /\ HasPrefix(parsedURL.path, existing.path \o <<"/">>)

ParentPathOf(urlPath) == IF pathDir(urlPath) = <<".">> THEN <<"/">> ELSE pathDir(urlPath)

ParentCandidates(t, parsedURL) ==
    {e \in DOMAIN t.NodeMap :
        IsParentOf(ParseURL(e), parsedURL, ParentPathOf(parsedURL.path))}

\* the nodes findParentByURLHierarchy can return: the range over the map
\* starts anywhere, so any matching node can be the first one found
FindParentChoices(t, parsedURL) ==
    IF ~parsedURL.ok THEN {NoNode}
    ELSE IF parsedURL.path = <<"/">> \/ parsedURL.path = <<>> THEN {t.Root}
    ELSE IF ParentCandidates(t, parsedURL) = {} THEN {NoNode}
    ELSE ParentCandidates(t, parsedURL)

findParentByURLHierarchy(t, url) == FindParentChoices(t, ParseURL(url))

DetermineParent(config, t, url) ==
    IF config.UseURLHierarchy THEN findParentByURLHierarchy(t, url) ELSE {NoNode}

AttachTo(config, t, parent) ==
    IF parent # NoNode THEN parent
    ELSE IF config.FallbackToRoot /\ t.Root # NoNode THEN t.Root
    ELSE NoNode

Attached(t, url, p) ==
    [t EXCEPT !.NodeMap =
        (url :> [DocumentNode(url) EXCEPT !.Parent = p])
        @@ (IF p = NoNode THEN t.NodeMap
            ELSE [t.NodeMap EXCEPT ![p].Children = Append(@, url)])]

\* an AddNode that does not look for the URL in NodeMap
AddNodeUnchecked(config, t, url, parent) == Attached(t, url, AttachTo(config, t, parent))

\* the error AddNode returns
AddNodeError(t, url) == IF url \in DOMAIN t.NodeMap THEN "exists" ELSE "nil"

\* AddNode, given the parent DetermineParent returned
AddNode(config, t, url, parent) ==
    IF url \in DOMAIN t.NodeMap THEN t
    ELSE Attached(t, url, AttachTo(config, t, parent))

RECURSIVE calculateNodeDepthAndLevel(_, _, _, _)
RECURSIVE CalculateChildren(_, _, _, _, _)
calculateNodeDepthAndLevel(m, u, depth, level) ==
    CalculateChildren([m EXCEPT ![u].Depth = depth, ![u].Level = level],
                      m[u].Children, 1, depth + 1, level + 1)

CalculateChildren(m, children, k, depth, level) ==
    IF k > Len(children) THEN m
    ELSE CalculateChildren(calculateNodeDepthAndLevel(m, children[k], depth, level),
                           children, k + 1, depth, level)

CalculateDepthAndLevel(t) ==
    IF t.Root # NoNode
    THEN [t EXCEPT !.NodeMap = calculateNodeDepthAndLevel(t.NodeMap, t.Root, 0, 0)]
    ELSE t

\* the bytes that occur in URLs and titles, in increasing byte value
ByteOrder ==
    <<".", "/", ":",
      "A", "B", "C", "D", "E", "F", "G", "H", "I", "J", "K", "L", "M",
      "N", "O", "P", "Q", "R", "S", "T", "U", "V", "W", "X", "Y", "Z",
      "a", "b", "c", "d", "e", "f", "g", "h", "i", "j", "k", "l", "m",
      "n", "o", "p", "q", "r", "s", "t", "u", "v", "w", "x", "y", "z">>

ByteOf(c) == CHOOSE k \in 1..Len(ByteOrder) : ByteOrder[k] = c

\* Go's < on strings: bytewise, a proper prefix first
RECURSIVE StringLess(_, _)
StringLess(a, b) ==
    IF b = <<>> THEN FALSE
    ELSE IF a = <<>> THEN TRUE
    ELSE IF Head(a) # Head(b) THEN ByteOf(Head(a)) < ByteOf(Head(b))
    ELSE StringLess(Tail(a), Tail(b))

SortCriteria == {"index", "title", "url", "date"}

\* the less function SortChildren hands to sort.Slice
ChildLess(m, sortBy, a, b) ==
    IF sortBy = "index" THEN m[a].Index < m[b].Index
    ELSE IF sortBy = "title" THEN StringLess(m[a].Title, m[b].Title)
    ELSE IF sortBy = "url" THEN StringLess(m[a].URL, m[b].URL)
    ELSE IF sortBy = "date" THEN m[a].LastModified < m[b].LastModified
    ELSE FALSE

\* sort.Slice on fewer than 12 elements is an insertion sort
RECURSIVE InsertChild(_, _, _, _)
InsertChild(m, sortBy, sorted, x) ==
    IF sorted = <<>> \/ ~ChildLess(m, sortBy, x, sorted[Len(sorted)])
    THEN Append(sorted, x)
    ELSE Append(InsertChild(m, sortBy, SubSeq(sorted, 1, Len(sorted) - 1), x),
                sorted[Len(sorted)])

RECURSIVE SortSlice(_, _, _, _, _)
SortSlice(m, sortBy, children, k, sorted) ==
    IF k > Len(children) THEN sorted
    ELSE SortSlice(m, sortBy, children, k + 1, InsertChild(m, sortBy, sorted, children[k]))

RECURSIVE SortChildren(_, _, _)
RECURSIVE SortEachChild(_, _, _, _)
\* a node with at most one child returns at once; otherwise its children are
\* sorted and SortChildren is called on each of them
SortChildren(m, u, sortBy) ==
    IF Len(m[u].Children) <= 1 THEN m
    ELSE SortEachChild(
             [m EXCEPT ![u].Children = SortSlice(m, sortBy, m[u].Children, 1, <<>>)],
             SortSlice(m, sortBy, m[u].Children, 1, <<>>), 1, sortBy)

SortEachChild(m, children, k, sortBy) ==
    IF k > Len(children) THEN m
    ELSE SortEachChild(SortChildren(m, children[k], sortBy), children, k + 1, sortBy)

sortTreeChildren(config, t) ==
    IF config.SortChildren
    THEN [t EXCEPT !.NodeMap = SortChildren(t.NodeMap, t.Root, config.SortBy)]
    ELSE t

RECURSIVE autoIndexNodes(_, _, _)
RECURSIVE AutoIndexChildren(_, _, _)
\* returns the map and the next free index
autoIndexNodes(m, u, startIndex) ==
    AutoIndexChildren([map |-> [m EXCEPT ![u].Index = startIndex], next |-> startIndex + 1],
                      m[u].Children, 1)

AutoIndexChildren(r, children, k) ==
    IF k > Len(children) THEN r
    ELSE AutoIndexChildren(autoIndexNodes(r.map, children[k], r.next), children, k + 1)

AutoIndexed(config, t) ==
    IF config.AutoIndex
    THEN [t EXCEPT !.NodeMap = autoIndexNodes(t.NodeMap, t.Root, 0).map]
    ELSE t

Max(a, b) == IF a > b THEN a ELSE b

RECURSIVE calculateMaxDepth(_, _)
RECURSIVE MaxChildDepth(_, _, _, _)
calculateMaxDepth(m, u) ==
    IF u = NoNode THEN 0
    ELSE m[u].Depth + MaxChildDepth(m, m[u].Children, 1, 0)

MaxChildDepth(m, children, k, maxChildDepth) ==
    IF k > Len(children) THEN maxChildDepth
    ELSE MaxChildDepth(m, children, k + 1,
                       Max(maxChildDepth, calculateMaxDepth(m, children[k])))

MaxPages == 3

GoneURL == <<"h","t","t","p",":","/","/","a",".","i","o","/","g","o","n","e">>

TreeURLs ==
    {<<"h","t","t","p",":","/","/","a",".","i","o","/">>, <<"h","t","t","p",":","/","/","a",".","i","o","/","d","o","c","s">>, <<"h","t","t","p",":","/","/","a",".","i","o","/","d","o","c","s","/">>, <<"h","t","t","p",":","/","/","a",".","i","o","/","d","o","c","s","/","g","u","i","d","e">>,
     <<"h","t","t","p",":","/","/","a",".","i","o","/","d","o","c","s","/","g","u","i","d","e","/","s","t","a","r","t">>, <<"h","t","t","p",":","/","/","b",".","i","o","/","x">>, GoneURL}

\* the pages /, /docs/, /docs/guide/, /docs/guide/start of one host
HierarchyPages ==
    <<<<"h","t","t","p",":","/","/","a",".","i","o","/">>, <<"h","t","t","p",":","/","/","a",".","i","o","/","d","o","c","s","/">>, <<"h","t","t","p",":","/","/","a",".","i","o","/","d","o","c","s","/","g","u","i","d","e","/">>,
      <<"h","t","t","p",":","/","/","a",".","i","o","/","d","o","c","s","/","g","u","i","d","e","/","s","t","a","r","t">>>>

\* a page list in which /docs is the only child of / and gets two children
SiblingPages == <<TreeHome, TreeDocs, TreeStart, TreeGuide>>

TreeLists ==
    {HierarchyPages, SiblingPages} \cup UNION {[1..n -> TreeURLs] : n \in 0..MaxPages}

\* every page has content but one
TreeContents == (TreeURLs \cup {HierarchyPages[k] : k \in 1..4}) \ {GoneURL}

TreeConfigs ==
    [UseURLHierarchy : BOOLEAN, FallbackToRoot : BOOLEAN,
     SortChildren : {FALSE}, AutoIndex : BOOLEAN, SortBy : {"index"}]
    \cup
    [UseURLHierarchy : BOOLEAN, FallbackToRoot : BOOLEAN,
     SortChildren : {TRUE}, AutoIndex : {TRUE}, SortBy : SortCriteria]

InitTree ==
    /\ fnIn \in [urls : TreeLists, contents : {TreeContents}, config : TreeConfigs]
    /\ fnOut = <<>>
    /\ tree = EmptyTree
    /\ treePc = [at |-> "root", i |-> 0, err |-> "none"]
    /\ walk = NoWalk
    /\ IdleDedup /\ IdleObs /\ IdleCrawl

treeFixed == <<fnVars, dedupVars, obsVars, crawlVars>>

\* BuildTree: the root node
CreateRoot ==
    /\ treePc.at = "root"
    /\ tree' = IF Len(fnIn.urls) > 0 /\ fnIn.urls[1] \in fnIn.contents
               THEN [tree EXCEPT !.Root = fnIn.urls[1],
                                 !.NodeMap = fnIn.urls[1] :> DocumentNode(fnIn.urls[1])]
               ELSE tree
    /\ treePc' = [at |-> "add", i |-> 1, err |-> "none"]
    /\ UNCHANGED <<walk, treeFixed>>

\* BuildTree: one turn of the loop over urls
AddNextNode ==
    /\ treePc.at = "add"
    /\ treePc.i <= Len(fnIn.urls)
    /\ IF (treePc.i = 1 /\ tree.Root # NoNode) \/ fnIn.urls[treePc.i] \notin fnIn.contents
       THEN /\ tree' = tree
            /\ treePc' = [treePc EXCEPT !.i = @ + 1, !.err = "none"]
       ELSE /\ \E parent \in DetermineParent(fnIn.config, tree, fnIn.urls[treePc.i]) :
                   tree' = AddNode(fnIn.config, tree, fnIn.urls[treePc.i], parent)
            /\ treePc' = [treePc EXCEPT !.i = @ + 1,
                                         !.err = AddNodeError(tree, fnIn.urls[treePc.i])]
    /\ UNCHANGED <<walk, treeFixed>>

WithTotalNodes(t) == [t EXCEPT !.TotalNodes = Cardinality(DOMAIN t.NodeMap)]

WithMaxDepth(t) == [t EXCEPT !.MaxDepth = calculateMaxDepth(t.NodeMap, t.Root)]

\* sortTreeChildren and autoIndexNodes dereference the root they are given
DereferencesNil(config, t) == t.Root = NoNode /\ (config.SortChildren \/ config.AutoIndex)

\* BuildTree: depth and levels, the sort and the indices when configured,
\* then the statistics; with no root node the sort or the indexing panics
\* and no tree is returned
FinishBuild ==
    /\ treePc.at = "add"
    /\ treePc.i > Len(fnIn.urls)
    /\ IF DereferencesNil(fnIn.config, tree)
       THEN /\ tree' = CalculateDepthAndLevel(tree)
            /\ treePc' = [treePc EXCEPT !.at = "panic"]
       ELSE /\ tree' = WithMaxDepth(WithTotalNodes(AutoIndexed(fnIn.config,
                           sortTreeChildren(fnIn.config, CalculateDepthAndLevel(tree)))))
            /\ treePc' = [treePc EXCEPT !.at = "built"]
    /\ UNCHANGED <<walk, treeFixed>>

Built == treePc.at = "built"

RECURSIVE PreOrder(_, _)
RECURSIVE PreOrderOf(_, _, _)
\* the nodes below u, u first, following Children
PreOrder(m, u) == <<u>> \o PreOrderOf(m, m[u].Children, 1)

PreOrderOf(m, children, k) ==
    IF k > Len(children) THEN <<>>
    ELSE PreOrder(m, children[k]) \o PreOrderOf(m, children, k + 1)

Range(s) == {s[k] : k \in 1..Len(s)}

\* the nodes reachable from the root through Children
Reachable(t) == IF t.Root = NoNode THEN {} ELSE Range(PreOrder(t.NodeMap, t.Root))

\* C15: in every DocumentTree that BuildTree returns, for any page list and
\* with the fallback to the root on or off, a node has Level 0 exactly when it
\* is the root, and every other node has Level = Parent.Level + 1.
C15_LevelFollowsParent ==
    Built =>
        \A u \in DOMAIN tree.NodeMap :
            /\ (tree.NodeMap[u].Level = 0) <=> (u = tree.Root)
            /\ (u # tree.Root /\ tree.NodeMap[u].Parent # NoNode)
                   => tree.NodeMap[u].Level = tree.NodeMap[tree.NodeMap[u].Parent].Level + 1

\* C16: NodeMap holds exactly the nodes reachable from the root through
\* Children, each under its own URL; a page for which no parent is found while
\* the fallback to the root is disabled is omitted: it is not reachable, not
\* in NodeMap and not counted in TotalNodes.
C16_NodeMapIsReachable ==
    Built =>
        /\ DOMAIN tree.NodeMap = Reachable(tree)
        /\ \A u \in DOMAIN tree.NodeMap : tree.NodeMap[u].URL = u
        /\ tree.TotalNodes = Cardinality(Reachable(tree))

HierarchyBuilt ==
    /\ Built
    /\ fnIn.urls = HierarchyPages
    /\ fnIn.config.UseURLHierarchy /\ fnIn.config.FallbackToRoot

\* C17: BuildTree on the pages /, /docs/, /docs/guide/, /docs/guide/start of
\* one host, in that order, with UseURLHierarchy and FallbackToRoot enabled,
\* gives a tree of 4 nodes in which the parent of /docs/guide/start is
\* /docs/guide/, not /docs/ and not the root.
C17_ParentIsNearestDirectory ==
    HierarchyBuilt =>
        /\ tree.TotalNodes = 4
        /\ tree.NodeMap[HierarchyPages[4]].Parent = HierarchyPages[3]

\* a traversal whose visitor's error is swallowed
AfterVisitIgnoringError(w, node, children, fails) ==
    IF fails
    THEN [w EXCEPT !.visits = Append(@, node), !.raised = node,
                   !.pending = IF w.kind = "dfs" THEN children \o Tail(w.pending)
                               ELSE Tail(w.pending) \o children]
    ELSE [w EXCEPT !.visits = Append(@, node),
                   !.pending = IF w.kind = "dfs" THEN children \o Tail(w.pending)
                               ELSE Tail(w.pending) \o children]

\* one call of the visitor: on an error the traversal returns it at once;
\* otherwise the children are entered before the pending siblings (depth
\* first) or queued after them (breadth first)
AfterVisit(w, node, children, fails) ==
    IF fails
    THEN [w EXCEPT !.visits = Append(@, node), !.result = "error",
                   !.raised = node, !.returned = node]
    ELSE [w EXCEPT !.visits = Append(@, node),
                   !.pending = IF w.kind = "dfs" THEN children \o Tail(w.pending)
                               ELSE Tail(w.pending) \o children]

\* the traversal returns nil when nothing is left to visit
Returned(w) ==
    IF w.result = "running" /\ w.pending = <<>> THEN [w EXCEPT !.result = "nil"] ELSE w

NewWalk(kind, root) ==
    [kind |-> kind, pending |-> IF root = NoNode THEN <<>> ELSE <<root>>, visits |-> <<>>,
     result |-> "running", raised |-> NoNode, returned |-> NoNode]

\* TraverseDepthFirst / TraverseBreadthFirst is called on the built tree
StartTraverse(kind) ==
    /\ Built
    /\ walk = NoWalk
    /\ walk' = Returned(NewWalk(kind, tree.Root))
    /\ UNCHANGED <<tree, treePc, treeFixed>>

TraverseDepthFirst == StartTraverse("dfs")

TraverseBreadthFirst == StartTraverse("bfs")

\* the visitor is called on the next node; it fails or not
VisitNode ==
    /\ walk.result = "running"
    /\ \E fails \in BOOLEAN :
          walk' = Returned(AfterVisit(walk, Head(walk.pending),
                                      tree.NodeMap[Head(walk.pending)].Children, fails))
    /\ UNCHANGED <<tree, treePc, treeFixed>>

NextTree ==
    \/ CreateRoot
    \/ AddNextNode
    \/ FinishBuild
    \/ TraverseDepthFirst
    \/ TraverseBreadthFirst
    \/ VisitNode

SpecTree == InitTree /\ [][NextTree]_vars

VisitIndex(u) == CHOOSE k \in 1..Len(walk.visits) : walk.visits[k] = u

\* C18: as soon as the visitor returns an error, TraverseDepthFirst and
\* TraverseBreadthFirst visit no further node and return that error; when the
\* visitor never fails, every node reachable from the root is visited exactly
\* once (a parent before its children depth first, in non-decreasing level
\* breadth first) and nil is returned.
C18_TraversalStopsOrCovers ==
    /\ walk.result = "error" =>
          /\ walk.raised = walk.visits[Len(walk.visits)]
          /\ walk.returned = walk.raised
          /\ \A k \in 1..(Len(walk.visits) - 1) : walk.visits[k] # walk.raised
    /\ walk.result = "nil" =>
          /\ walk.raised = NoNode
          /\ Range(walk.visits) = Reachable(tree)
          /\ Len(walk.visits) = Cardinality(Reachable(tree))
          /\ walk.kind = "dfs" =>
                \A u \in Range(walk.visits) :
                    u # tree.Root => VisitIndex(tree.NodeMap[u].Parent) < VisitIndex(u)
          /\ walk.kind = "bfs" =>
                \A k \in 1..(Len(walk.visits) - 1) :
                    tree.NodeMap[walk.visits[k]].Level <= tree.NodeMap[walk.visits[k + 1]].Level

\* a breadth-first traversal of a three-level tree stopped at its second node
C18_Witness ==
    /\ walk.kind = "bfs"
    /\ walk.result = "error"
    /\ Len(walk.visits) = 2
    /\ Cardinality(Reachable(tree)) >= 3
    /\ \E u \in Reachable(tree) : tree.NodeMap[u].Level = 2

DocsPages == {i \in 1..Len(pages) : Canonical(pages[i].URL) = Canonical(DocsLink)}

\* C19: crawling a root whose page links to a page of the site, to the same
\* page with the host written in another case, and to a page of another site,
\* with lower-casing and www-stripping normalization and same-domain scoping:
\* the external link is rejected by the admission policy, both links to the
\* page pass it and have the same canonical form, exactly one PageRecord for
\* the page is returned, and the duplicate counter ends at 1.
C19_MixedCaseDuplicate ==
    (scrapePc = "returned" /\ site = SiteCase /\ cfg.dedup /\ ~cfg.quality /\ cfg.MaxDepth >= 2) =>
        /\ ~shouldFollowLink(ExternalLink, ParseURL(RootURL))
        /\ shouldFollowLink(DocsLink, ParseURL(RootURL))
        /\ shouldFollowLink(DocsUpperLink, ParseURL(RootURL))
        /\ Canonical(DocsLink) = Canonical(DocsUpperLink)
        /\ Cardinality(DocsPages) = 1
        /\ duplicateCount = 1

\* the pages whose goroutine appended them to s.pages in extractPageContent
StoredBase ==
    {u \in DOMAIN reqs \cap DOMAIN site :
        reqs[u].fetched /\ reqs[u].pc = "done" /\ ~site[u].content.Blank}

\* the pages whose goroutine appended them in the quality-aware callback
StoredQuality ==
    {u \in DOMAIN reqs \cap DOMAIN site :
        /\ cfg.quality /\ reqs[u].fetched /\ reqs[u].pc = "done"
        /\ MeetsStandards(QualityDefaults, site[u].content,
                          AnalyzeContent(QualityDefaults, site[u].content))}

\* C20: the appends of concurrent workers to the collection of accepted pages
\* exclude each other: in every interleaving each page that passed all gates
\* is in the returned list, no append being lost or overwritten, and the
\* progress counter equals the number of pages that the quality-aware path
\* stored.
C20_NoAppendLost ==
    scrapePc = "returned" =>
        /\ \A u \in StoredBase \cup StoredQuality : \E i \in 1..Len(pages) : pages[i].URL = u
        /\ cfg.progress => currentProgress = Cardinality(StoredQuality)

(***************************************************************************)
(* Scraper.Scrape on its own (SpecScrape): a Scraper made by New, with the *)
(* callbacks of setupCallbacks only.  The Go scheduler runs every runnable *)
(* goroutine and every HTTP request ends (with a response or an error), so *)
(* a step that stays possible is eventually taken.                         *)
(***************************************************************************)
InitScrape == Init /\ ~cfg.dedup /\ ~cfg.quality

NextScrape ==
    \/ ScrapeStart
    \/ VisitRoot
    \/ WaitReturns
    \/ StepOnRequest
    \/ StepHTTPFinish
    \/ StepExtractPageContent
    \/ StepExtractStore
    \/ StepFollowLink

CanFollowLink == \E u \in RequestURLs : InCallback(u, "links")

\* weak fairness of every step; for ScrapeStart, VisitRoot and StepFollowLink it
\* is written out with the condition under which the step is possible
FairScrape ==
    /\ WF_vars(WaitReturns)
    /\ WF_vars(StepOnRequest)
    /\ WF_vars(StepHTTPFinish)
    /\ WF_vars(StepExtractPageContent)
    /\ WF_vars(StepExtractStore)
    /\ ([]<>(scrapePc # "start") \/ []<><<ScrapeStart>>_vars)
    /\ ([]<>(scrapePc # "visit") \/ []<><<VisitRoot>>_vars)
    /\ ([]<>(~CanFollowLink) \/ []<><<StepFollowLink>>_vars)

SpecScrape == InitScrape /\ [][NextScrape]_vars /\ FairScrape

\* nothing is queued and nothing is in flight
Drained == waitChan = 0 /\ \A u \in DOMAIN reqs : reqs[u].pc = "done"

C22_ResetClearsAll ==
    /\ [](lastCall.op = "Reset" =>
            (seenURLs = {} /\ canonicalMap = {} /\ duplicateCount = 0))
    /\ [][(lastCall.op = "Reset" /\ lastCall'.op = "AddURL"
               /\ lastCall'.url \in lastCall.logBefore)
            => (lastCall'.ret = TRUE /\ lastCall'.url \in admitLog'
                   /\ Cardinality(seenURLs') = 1 /\ duplicateCount' = 0)]_vars

\* Reset has just cleared a deduplicator that had admitted URLs and counted
\* duplicates
C22_Witness ==
    /\ lastCall.op = "Reset"
    /\ Cardinality(lastCall.logBefore) >= 2
    /\ lastCall.seenBefore >= 2
    /\ lastCall.dupBefore >= 1
    /\ lastCall.mapBefore # {}
    /\ seenURLs = {}

\* the last call was made with a raw URL that NormalizeURL rejects
NormalizeFailed(call) ==
    /\ call.op \in {"IsDuplicate", "AddURL", "GetCanonicalURL"}
    /\ ~NormalizeURL(normalizer, call.url).ok

\* C23: when NormalizeURL fails for a raw URL, IsDuplicate returns true; AddURL
\* returns false, increases the duplicate counter by exactly 1 and leaves the
\* seen set and the canonical map unchanged; GetCanonicalURL returns the raw
\* URL unchanged.
C23_NormalizeFailure ==
    /\ [](NormalizeFailed(lastCall) =>
            /\ lastCall.op = "IsDuplicate" => lastCall.ret = TRUE
            /\ lastCall.op = "AddURL" =>
                  /\ lastCall.ret = FALSE
                  /\ duplicateCount = lastCall.dupBefore + 1
                  /\ canonicalMap = lastCall.mapBefore
                  /\ admitLog = lastCall.logBefore
            /\ lastCall.op = "GetCanonicalURL" => lastCall.ret = lastCall.url)
    /\ [][NormalizeFailed(lastCall') =>
            /\ seenURLs' = seenURLs
            /\ canonicalMap' = canonicalMap
            /\ lastCall'.op # "AddURL" => duplicateCount' = duplicateCount]_vars

\* AddURL has just rejected a URL that does not parse, on a deduplicator that
\* holds admitted URLs
C23_Witness ==
    /\ lastCall.op = "AddURL"
    /\ lastCall.url = InvalidURL
    /\ NormalizeFailed(lastCall)
    /\ seenURLs # {}
    /\ canonicalMap # {}
    /\ duplicateCount = 1

\* the children of u are in non-decreasing order of the key
ChildrenOrdered(m, u, sortBy) ==
    \A i, j \in 1..Len(m[u].Children) :
        i < j => ~ChildLess(m, sortBy, m[u].Children[j], m[u].Children[i])

\* C24: when SortChildren is configured, after BuildTree the children list of
\* every node at every level is ordered by the selected key (title, URL, index
\* or date), including the children of a node that is the only child of its
\* parent.
C24_ChildrenSorted ==
    (Built /\ fnIn.config.SortChildren) =>
        \A u \in Reachable(tree) : ChildrenOrdered(tree.NodeMap, u, fnIn.config.SortBy)

\* the same for the nodes whose parent chain to the root has no only child
C24_SortedBelowSiblings ==
    (Built /\ fnIn.config.SortChildren) =>
        \A u \in Reachable(tree) :
            (\A a \in Reachable(tree) :
                (a = u \/ u \in Range(PreOrder(tree.NodeMap, a))) /\ a # tree.Root
                    => Len(tree.NodeMap[tree.NodeMap[a].Parent].Children) >= 2)
                => ChildrenOrdered(tree.NodeMap, u, fnIn.config.SortBy)

\* the largest Level of a node reachable from the root
LargestLevel(t) ==
    IF Reachable(t) = {} THEN 0
    ELSE CHOOSE l \in {t.NodeMap[u].Level : u \in Reachable(t)} :
             \A u \in Reachable(t) : t.NodeMap[u].Level <= l

\* C25: in every DocumentTree returned by BuildTree, MaxDepth equals the
\* largest Level of any node reachable from the root (0 for a root-only tree,
\* 2 for a chain root -> a -> b), and TotalNodes equals the number of nodes
\* reachable from the root including the root.
C25_Statistics ==
    Built =>
        /\ tree.MaxDepth = LargestLevel(tree)
        /\ tree.TotalNodes = Cardinality(Reachable(tree))

\* MaxDepth is right for trees of at most two levels
C25_ShallowMaxDepth ==
    (Built /\ LargestLevel(tree) <= 1) => tree.MaxDepth = LargestLevel(tree)

\* the depth-first pre-order of the tree, the root first
TreeOrder(t) == IF t.Root = NoNode THEN <<>> ELSE PreOrder(t.NodeMap, t.Root)

\* C26: when AutoIndex is configured, after BuildTree every node carries a
\* distinct Index, the indices are exactly 0..TotalNodes-1, and the Index of a
\* node equals its position in the depth-first pre-order visit of the final,
\* already sorted tree.
C26_IndexIsPreOrder ==
    (Built /\ fnIn.config.AutoIndex) =>
        /\ \A u, v \in DOMAIN tree.NodeMap :
              u # v => tree.NodeMap[u].Index # tree.NodeMap[v].Index
        /\ {tree.NodeMap[u].Index : u \in DOMAIN tree.NodeMap} = 0..(tree.TotalNodes - 1)
        /\ \A k \in 1..Len(TreeOrder(tree)) : tree.NodeMap[TreeOrder(tree)[k]].Index = k - 1

\* the same for the nodes reachable from the root only
C26_ReachableIndexIsPreOrder ==
    (Built /\ fnIn.config.AutoIndex) =>
        /\ \A k \in 1..Len(TreeOrder(tree)) : tree.NodeMap[TreeOrder(tree)[k]].Index = k - 1
        /\ \A u \in DOMAIN tree.NodeMap \ Reachable(tree) : tree.NodeMap[u].Index = 0

\* a second run of BuildTree on the same arguments, in which the scan of
\* NodeMap returns one fixed candidate
SecondRunRoot(urls, contents) ==
    IF Len(urls) > 0 /\ urls[1] \in contents
    THEN [EmptyTree EXCEPT !.Root = urls[1], !.NodeMap = urls[1] :> DocumentNode(urls[1])]
    ELSE EmptyTree

RECURSIVE SecondRunAdd(_, _, _, _, _)
SecondRunAdd(config, urls, contents, t, i) ==
    IF i > Len(urls) THEN t
    ELSE IF (i = 1 /\ t.Root # NoNode) \/ urls[i] \notin contents
    THEN SecondRunAdd(config, urls, contents, t, i + 1)
    ELSE SecondRunAdd(config, urls, contents,
                      AddNode(config, t, urls[i],
                              CHOOSE p \in DetermineParent(config, t, urls[i]) : TRUE),
                      i + 1)

SecondRun(in) ==
    SecondRunAdd(in.config, in.urls, in.contents, SecondRunRoot(in.urls, in.contents), 1)

ParentsOf(t) == [u \in DOMAIN t.NodeMap |-> t.NodeMap[u].Parent]

\* C27: BuildTree is deterministic: two runs on the same ordered page list and
\* configuration return trees with the same parent for every node, also when
\* several existing nodes qualify as parent (/docs and /docs/guide both
\* qualify for /docs/guide/start).
C27_SameParents ==
    Built => ParentsOf(tree) = ParentsOf(SecondRun(fnIn))

\* two runs agree on the set of nodes
C27_SameNodes ==
    Built => DOMAIN tree.NodeMap = DOMAIN SecondRun(fnIn).NodeMap

Min(a, b) == IF a < b THEN a ELSE b

\* a linear ramp to the weight, reached at the saturation count
Ramp(count, saturation, weight) == Min((count * weight) \div saturation, weight)

\* the score of the page with one input replaced
ScoreOf(page) == CalculateScore(extractMetrics(page))

\* no input of the page, raised on its own, lowers the score
ScoreMonotone ==
    /\ \A w \in ScoreWordCounts :
          w >= fnIn.WordCount => ScoreOf([fnIn EXCEPT !.WordCount = w]) >= fnOut[1].score
    /\ \A c \in ScoreCounts :
          c >= fnIn.CodeBlockCount
              => ScoreOf([fnIn EXCEPT !.CodeBlockCount = c]) >= fnOut[1].score
    /\ \A h \in ScoreCounts :
          h >= fnIn.HeaderCount => ScoreOf([fnIn EXCEPT !.HeaderCount = h]) >= fnOut[1].score
    /\ \A l \in ScoreLengths :
          estimateContentRatio(l[1], l[2]) >= fnOut[1].metrics.ContentRatio
              => ScoreOf([fnIn EXCEPT !.TotalLength = l[1], !.BoilerplateLength = l[2]])
                     >= fnOut[1].score

\* C28: in CalculateScore the code-block sub-score is min(codeBlocks/3, 1),
\* the header sub-score is min(headers/3, 1), and the word sub-score is
\* min(wordCount/500, 1) from 100 words on and 0 below 100 words; the score
\* never decreases when any one metric increases.
C28_RampsFromHundredWords ==
    Scored =>
        /\ fnOut[1].score =
              (IF fnIn.WordCount < 100 THEN 0 ELSE Ramp(fnIn.WordCount, 500, 9000))
              + Ramp(fnIn.CodeBlockCount, 3, 6000)
              + Ramp(fnIn.HeaderCount, 3, 4500)
              + ContentRatioScore(fnOut[1].metrics) + TitleScore(fnOut[1].metrics)
        /\ ScoreMonotone

\* a page of 50 words with two code blocks and one header has been scored
C28_Witness ==
    /\ Scored
    /\ fnIn.WordCount = 50 /\ fnIn.CodeBlockCount = 2 /\ fnIn.HeaderCount = 1
    /\ fnIn.Title = <<>> /\ fnOut[1].metrics.ContentRatio = 100
    /\ fnOut[1].score = 10000

\* C28 as stated: the word sub-score is min(wordCount/500, 1) for every word
\* count, so that 50 words contribute 0.1 of the word weight
C28_RampsFromZeroWords ==
    Scored =>
        /\ fnOut[1].score =
              Ramp(fnIn.WordCount, 500, 9000)
              + Ramp(fnIn.CodeBlockCount, 3, 6000)
              + Ramp(fnIn.HeaderCount, 3, 4500)
              + ContentRatioScore(fnOut[1].metrics) + TitleScore(fnOut[1].metrics)
        /\ ScoreMonotone

(***************************************************************************)
(* output.buildTreeFromPages: the tree of the hierarchical output          *)
(* (SpecPageTree).  Nodes are named by their position in pages; node 0 is  *)
(* the synthetic root.                                                     *)
(***************************************************************************)
extractPathFromURL(urlStr) == IF ParseURL(urlStr).ok THEN ParseURL(urlStr).path ELSE <<>>

RootNode ==
    [URL |-> <<>>, Path |-> <<>>, Title |-> <<"R","o","o","t">>, Level |-> 0, Parent |-> NoNode,
     Children |-> <<>>, Index |-> 0]

PageNode(pageURL, i) ==
    [URL |-> pageURL, Path |-> extractPathFromURL(pageURL), Title |-> TitleOf(pageURL),
     Level |-> 0, Parent |-> NoNode, Children |-> <<>>, Index |-> i - 1]

\* the test findParentNode makes on one candidate
IsPathParent(nodePath, candidatePath, maxMatchLength) ==
    /\ HasPrefix(nodePath, candidatePath)
    /\ Len(candidatePath) > maxMatchLength
    /\ \/ nodePath = candidatePath \o <<"/">>
       \/ Len(nodePath) > Len(candidatePath) /\ nodePath[Len(candidatePath) + 1] = "/"

\* the loop of findParentNode over allNodes; bestParent 0 stands for nil
RECURSIVE ScanParents(_, _, _, _, _)
ScanParents(nodes, n, c, bestParent, maxMatchLength) ==
    IF c > Len(nodes) THEN bestParent
    ELSE IF c = n \/ nodes[c].Path = <<>>
              \/ ~IsPathParent(nodes[n].Path, nodes[c].Path, maxMatchLength)
    THEN ScanParents(nodes, n, c + 1, bestParent, maxMatchLength)
    ELSE ScanParents(nodes, n, c + 1, c, Len(nodes[c].Path))

findParentNode(nodes, n) ==
    IF nodes[n].Path = <<>> \/ nodes[n].Path = <<"/">> THEN 0
    ELSE ScanParents(nodes, n, 1, 0, 0)

\* the body of the second loop of buildTreeFromPages
Linked(t, n, parent) ==
    IF parent # 0
    THEN [t EXCEPT !.nodes[parent].Children = Append(@, n),
                   !.nodes[n].Parent = <<parent>>,
                   !.nodes[n].Level = t.nodes[parent].Level + 1]
    ELSE [t EXCEPT !.Root.Children = Append(@, n),
                   !.nodes[n].Parent = <<0>>,
                   !.nodes[n].Level = 1]

RECURSIVE pageTreeMaxDepth(_, _)
RECURSIVE PageChildrenDepth(_, _, _, _)
\* output.calculateMaxDepth
pageTreeMaxDepth(t, children) ==
    IF children = <<>> THEN 0 ELSE PageChildrenDepth(t, children, 1, 0)

PageChildrenDepth(t, children, k, maxDepth) ==
    IF k > Len(children) THEN maxDepth
    ELSE PageChildrenDepth(t, children, k + 1,
             Max(maxDepth, 1 + pageTreeMaxDepth(t, t.nodes[children[k]].Children)))

PageURLs == {TreeHome, TreeDocs, TreeDocsSlash, TreeGuide, TreeStart, <<"h","t","t","p",":","/","/","b",".","i","o","/","d","o","c","s">>, InvalidURL}

PageLists == UNION {[1..n -> PageURLs] : n \in 0..MaxPages}

InitPageTree ==
    /\ fnIn \in PageLists
    /\ fnOut = <<>>
    /\ tree = [Root |-> RootNode, nodes |-> <<>>, NodeMap |-> <<>>,
               MaxDepth |-> 0, TotalNodes |-> 0]
    /\ treePc = [at |-> "create", i |-> 0, err |-> "none"]
    /\ walk = NoWalk
    /\ IdleDedup /\ IdleObs /\ IdleCrawl

\* buildTreeFromPages: the root, and a node for each page
CreatePageNodes ==
    /\ treePc.at = "create"
    /\ tree' = [tree EXCEPT !.nodes = [i \in 1..Len(fnIn) |-> PageNode(fnIn[i], i)],
                            !.NodeMap = [u \in Range(fnIn) |->
                                            CHOOSE i \in 1..Len(fnIn) :
                                                /\ fnIn[i] = u
                                                /\ \A j \in 1..Len(fnIn) : fnIn[j] = u => j <= i]]
    /\ treePc' = [treePc EXCEPT !.at = "link", !.i = 1]
    /\ UNCHANGED <<walk, treeFixed>>

\* buildTreeFromPages: one turn of the loop that builds the hierarchy
LinkPageNode ==
    /\ treePc.at = "link"
    /\ treePc.i <= Len(fnIn)
    /\ tree' = Linked(tree, treePc.i, findParentNode(tree.nodes, treePc.i))
    /\ treePc' = [treePc EXCEPT !.i = @ + 1]
    /\ UNCHANGED <<walk, treeFixed>>

\* buildTreeFromPages returns the tree with its statistics
ReturnPageTree ==
    /\ treePc.at = "link"
    /\ treePc.i > Len(fnIn)
    /\ tree' = [tree EXCEPT !.MaxDepth = pageTreeMaxDepth(tree, tree.Root.Children),
                            !.TotalNodes = Len(fnIn)]
    /\ treePc' = [treePc EXCEPT !.at = "returned"]
    /\ UNCHANGED <<walk, treeFixed>>

NextPageTree == CreatePageNodes \/ LinkPageNode \/ ReturnPageTree

SpecPageTree == InitPageTree /\ [][NextPageTree]_vars

PageTreeReturned == treePc.at = "returned"

\* the Level of the Parent of page node n
ParentLevel(t, n) ==
    IF t.nodes[n].Parent = <<0>> THEN t.Root.Level ELSE t.nodes[t.nodes[n].Parent[1]].Level

\* C29: in the tree that buildTreeFromPages builds, every page node's Level
\* equals its Parent's Level + 1 (children of the synthetic root have Level
\* 1), for every order of the input page list, including lists in which a
\* child page appears before its parent page.
C29_PageLevelFollowsParent ==
    PageTreeReturned =>
        \A n \in 1..Len(fnIn) :
            /\ tree.nodes[n].Parent # NoNode
            /\ tree.nodes[n].Level = ParentLevel(tree, n) + 1

\* the same when every page comes after the page that becomes its parent
C29_LevelWhenParentsFirst ==
    (PageTreeReturned
        /\ \A n \in 1..Len(fnIn) :
              tree.nodes[n].Parent = <<0>> \/ tree.nodes[n].Parent[1] < n)
        => \A n \in 1..Len(fnIn) : tree.nodes[n].Level = ParentLevel(tree, n) + 1

\* how often u occurs in a Children list
Occurrences(children, u) == Cardinality({k \in 1..Len(children) : children[k] = u})

\* following Parent from u, for at most n steps, ends at a node without Parent
RECURSIVE ParentChainEnds(_, _, _)
ParentChainEnds(m, u, n) ==
    IF m[u].Parent = NoNode THEN TRUE
    ELSE IF n = 0 THEN FALSE
    ELSE m[u].Parent \in DOMAIN m /\ ParentChainEnds(m, m[u].Parent, n - 1)

IsForest(m) ==
    /\ \A u \in DOMAIN m : ParentChainEnds(m, u, Cardinality(DOMAIN m) - 1)
    /\ \A u \in DOMAIN m :
          /\ Cardinality({p \in DOMAIN m : Occurrences(m[p].Children, u) > 0}) <= 1
          /\ \A p \in DOMAIN m : Occurrences(m[p].Children, u) <= 1
    /\ \A u, p \in DOMAIN m : (Occurrences(m[p].Children, u) > 0) <=> (m[u].Parent = p)
    /\ \A p \in DOMAIN m : Range(m[p].Children) \subseteq DOMAIN m

\* the turn of the BuildTree loop that is about to run calls AddNode
CallsAddNode ==
    /\ treePc.at = "add"
    /\ treePc.i <= Len(fnIn.urls)
    /\ ~(treePc.i = 1 /\ tree.Root # NoNode)
    /\ fnIn.urls[treePc.i] \in fnIn.contents

\* C30: after any sequence of AddNode calls on a tree, and in every tree that
\* BuildTree returns, the parent/children relation is a forest: following
\* Parent links never revisits a node, each node appears in the Children list
\* of at most one node and at most once, a node appears in p.Children exactly
\* when its Parent is p; an AddNode call for a URL already in NodeMap returns
\* an error and changes nothing.
C30_ForestAndNoReAdd ==
    /\ [](IsForest(tree.NodeMap))
    /\ [][CallsAddNode =>
            /\ (fnIn.urls[treePc.i] \in DOMAIN tree.NodeMap) <=> (treePc'.err = "exists")
            /\ treePc'.err = "exists" => tree' = tree
            /\ treePc'.err = "nil" =>
                  DOMAIN tree'.NodeMap = DOMAIN tree.NodeMap \cup {fnIn.urls[treePc.i]}]_vars

\* AddNode has just refused a URL that is already the child of a node
C30_Witness ==
    /\ treePc.at = "add"
    /\ treePc.err = "exists"
    /\ fnIn.config.UseURLHierarchy
    /\ \E u \in DOMAIN tree.NodeMap :
          /\ u = fnIn.urls[treePc.i - 1]
          /\ tree.NodeMap[u].Parent # NoNode
          /\ Occurrences(tree.NodeMap[tree.NodeMap[u].Parent].Children, u) = 1

====
